---- MODULE Spec2Model ----
(***************************************************************************)
(* Rule/action engine of the multi-agent document pipeline:                *)
(*   mcp/action_chain.py   ActionChain (registries, condition evaluation,  *)
(*                         chain execution, default actions)               *)
(*   utils/alert_system.py AlertSystem (alert rules, check_alerts)         *)
(*   agents/json_agent.py  JSONAgent (schema mapping of structured input)  *)
(*   api/endpoints.py      process_any (the /process pipeline)             *)
(***************************************************************************)
EXTENDS Integers, Sequences, FiniteSets, TLC

VARIABLES
    registered_actions,  \* ActionChain.registered_actions : action_id -> function
    action_chains,       \* ActionChain.action_chains, in insertion order
    alert_rules,         \* AlertSystem.alert_rules, in insertion order
    alerts_history,      \* AlertSystem.alerts_history
    clock,               \* what datetime.now() returns
    lastCall,            \* the last completed call, its arguments and what it returned
    threads,             \* concurrent callers of the registration methods
    cond_in,             \* one _check_condition evaluation: arguments and result
    pipeline,            \* the last /process request: its input and its response
    memory               \* MemoryStore: the committed rows of its tables, in insertion order

vars == <<registered_actions, action_chains, alert_rules, alerts_history,
          clock, lastCall, threads, cond_in, pipeline, memory>>

(***************************************************************************)
(* Bounds                                                                  *)
(***************************************************************************)
MaxHistory == 1

(***************************************************************************)
(* Python values.  Every value is a record of one shape:                   *)
(*   t: the type, s: the text of a str, n: the number of a number or the   *)
(*   length of a list, e: the str elements of a list.                      *)
(* A nested dict is stored as a function from key paths to values; the     *)
(* root dict sits at the empty path.                                       *)
(***************************************************************************)
NoneV == [t |-> "none", s |-> "", n |-> 0, e |-> {}]
Str(x) == [t |-> "str", s |-> x, n |-> 0, e |-> {}]
Num(k) == [t |-> "num", s |-> "", n |-> k, e |-> {}]
MapV == [t |-> "map", s |-> "", n |-> 0, e |-> {}]
ListV(len, elems) == [t |-> "list", s |-> "", n |-> len, e |-> elems]
Bool(b) == [t |-> "bool", s |-> "", n |-> IF b THEN 1 ELSE 0, e |-> {}]

\* bool is a subclass of int: True == 1 and True > 0 hold in Python.
IsNumber(v) == v.t \in {"num", "bool"}

\* Strings of the model in Python's str ordering (code point order).
SortedStrings ==
    << "", "(", "150", "1500.0", "500.0", "Email", "False", "Hi", "High", "Invoice",
       "JSON", "Low", "None", "Other", "PDF", "Regulation", "True", "USD", "raw" >>

StrIndex(x) == CHOOSE i \in 1..Len(SortedStrings) : SortedStrings[i] = x

StrLess(a, b) == StrIndex(a) < StrIndex(b)

\* a in b for two str: the proper substring pairs among the model's strings.
ProperSubstrings ==
    { <<"Hi", "High">>, <<"150", "1500.0">>, <<"500.0", "1500.0">> }

IsSubstring(a, b) == a = "" \/ a = b \/ <<a, b>> \in ProperSubstrings

\* str(value) for the scalar values.
PyStr(v) ==
    CASE v.t = "none" -> "None"
      [] v.t = "str" -> v.s
      [] v.t = "bool" -> IF v.n = 1 THEN "True" ELSE "False"
      [] v.t = "num" -> IF v.n = 1500 THEN "1500.0"
                        ELSE IF v.n = 500 THEN "500.0" ELSE "<number>"
      [] OTHER -> "<repr>"

\* Python ==
PyEq(a, b) ==
    CASE IsNumber(a) /\ IsNumber(b) -> a.n = b.n
      [] a.t = "none" /\ b.t = "none" -> TRUE
      [] a.t = "str" /\ b.t = "str" -> a.s = b.s
      [] OTHER -> FALSE

(***************************************************************************)
(* Result envelopes                                                        *)
(***************************************************************************)
P1(a) == <<a>>
P2(a, b) == <<a, b>>
P3(a, b, c) == <<a, b, c>>

\* route_to_agent's envelope for a structured record, after process_any has
\* set format and intent from classify_format_intent.
JsonEnvelope(intent, total, anomalies) ==
    (<<>> :> MapV)
    @@ (P1("format") :> Str("JSON"))
    @@ (P1("intent") :> Str(intent))
    @@ (P1("processed_data") :> MapV)
    @@ (P2("processed_data", "flowbit_data") :> MapV)
    @@ (P3("processed_data", "flowbit_data", "total_amount") :> total)
    @@ (P2("processed_data", "anomalies") :> ListV(Len(anomalies),
                                   { anomalies[i] : i \in 1..Len(anomalies) }))
    @@ (P2("processed_data", "is_valid") :> Bool(Len(anomalies) = 0))

EmailEnvelope(intent, urgency) ==
    (<<>> :> MapV)
    @@ (P1("format") :> Str("Email"))
    @@ (P1("intent") :> Str(intent))
    @@ (P1("processed_data") :> MapV)
    @@ (P2("processed_data", "urgency") :> Str(urgency))

PdfEnvelope(intent) ==
    (<<>> :> MapV)
    @@ (P1("format") :> Str("PDF"))
    @@ (P1("intent") :> Str(intent))
    @@ (P1("processed_data") :> MapV)

\* route_to_agent's error envelope, format overwritten by process_any.
ErrorEnvelope ==
    (<<>> :> MapV)
    @@ (P1("error") :> Str("Unsupported format"))
    @@ (P1("format") :> Str("Other"))
    @@ (P1("intent") :> Str("Other"))

\* A caller-built envelope whose processed_data is not a mapping.
RawEnvelope(format) ==
    (<<>> :> MapV)
    @@ (P1("format") :> Str(format))
    @@ (P1("intent") :> Str("Other"))
    @@ (P1("processed_data") :> Str("raw"))

Has(data, path) == path \in DOMAIN data

\* dict.get(key, default) on the dict at path.
Get(data, path, key, default) ==
    IF Has(data, Append(path, key)) THEN data[Append(path, key)] ELSE default

(***************************************************************************)
(* ActionChain: condition evaluation                                       *)
(***************************************************************************)
\* field.split("."), tabulated over the field strings of the model.
split(field) ==
    CASE field = "format" -> <<"format">>
      [] field = "intent" -> <<"intent">>
      [] field = "total_amount" -> <<"total_amount">>
      [] field = "processed_data" -> <<"processed_data">>
      [] field = "processed_data.urgency" -> <<"processed_data", "urgency">>
      [] field = "processed_data.urgency.level" ->
             <<"processed_data", "urgency", "level">>
      [] field = "processed_data.anomalies" -> <<"processed_data", "anomalies">>
      [] field = "processed_data.flowbit_data.total_amount" ->
             <<"processed_data", "flowbit_data", "total_amount">>
      [] field = "" -> <<"">>

Fields ==
    { "format", "intent", "total_amount", "processed_data",
      "processed_data.urgency", "processed_data.urgency.level",
      "processed_data.anomalies", "processed_data.flowbit_data.total_amount", "" }

\* Patterns re.compile rejects.
InvalidPatterns == { "(" }

\* The for loop over field_parts: the path current has reached, or not found.
RECURSIVE navigate(_, _, _)
navigate(data, parts, path) ==
    IF parts = <<>> THEN [found |-> TRUE, path |-> path]
    ELSE IF data[path].t = "map" /\ Has(data, Append(path, Head(parts)))
         THEN navigate(data, Tail(parts), Append(path, Head(parts)))
         ELSE [found |-> FALSE, path |-> path]

\* actual_value > value: TypeError unless both are numbers or both are str.
PyGreater(a, b) ==
    CASE IsNumber(a) /\ IsNumber(b) -> IF a.n > b.n THEN "true" ELSE "false"
      [] a.t = "str" /\ b.t = "str" -> IF StrLess(b.s, a.s) THEN "true" ELSE "false"
      [] OTHER -> "raise"

\* value in actual_value, for an actual_value that has __contains__.
PyIn(value, data, path) ==
    LET actual == data[path] IN
    CASE actual.t = "str" ->
             IF value.t # "str" THEN "raise"
             ELSE IF IsSubstring(value.s, actual.s) THEN "true" ELSE "false"
      [] actual.t = "map" ->
             IF value.t = "str" /\ Has(data, Append(path, value.s))
             THEN "true" ELSE "false"
      [] actual.t = "list" ->
             IF value.t = "str" /\ value.s \in actual.e THEN "true" ELSE "false"

\* re.search(pattern, str(actual_value)) for a pattern without metacharacters:
\* the pattern occurs in the printed value.  A dict prints its keys and
\* values, a list its elements.
regex_search(pattern, data, path) ==
    LET v == data[path] IN
    CASE v.t = "map" ->
             \/ pattern = ""
             \/ \E q \in DOMAIN data :
                   /\ Len(q) > Len(path)
                   /\ SubSeq(q, 1, Len(path)) = path
                   /\ \/ IsSubstring(pattern, q[Len(q)])
                      \/ data[q].t = "list" /\ \E x \in data[q].e : IsSubstring(pattern, x)
                      \/ data[q].t \notin {"map", "list"}
                            /\ IsSubstring(pattern, PyStr(data[q]))
      [] v.t = "list" -> pattern = "" \/ \E x \in v.e : IsSubstring(pattern, x)
      [] OTHER -> IsSubstring(pattern, PyStr(v))

\* _check_condition with the path read by chained .get() calls: a missing
\* segment yields None and the operator is applied to it.
check_condition_get(condition, data) ==
    LET nav == navigate(data, split(condition.field), <<>>)
        actual_value == IF nav.found THEN data[nav.path] ELSE NoneV
        value == condition.value
        operator == condition.operator
    IN  CASE operator = "eq" ->
                 IF PyEq(actual_value, value) THEN "true" ELSE "false"
          [] operator = "neq" ->
                 IF PyEq(actual_value, value) THEN "false" ELSE "true"
          [] operator = "gt" -> PyGreater(actual_value, value)
          [] operator = "lt" -> PyGreater(value, actual_value)
          [] operator = "contains" ->
                 IF actual_value.t \in {"str", "map", "list"}
                 THEN PyIn(value, data, nav.path) ELSE "false"
          [] operator = "regex" ->
                 IF value.t # "str" \/ value.s \in InvalidPatterns THEN "raise"
                 ELSE IF nav.found /\ regex_search(value.s, data, nav.path)
                      THEN "true" ELSE "false"
          [] OTHER -> "false"

\* _check_condition: "true", "false", or "raise" when the comparison throws.
check_condition(condition, data) ==
    LET nav == navigate(data, split(condition.field), <<>>)
        actual_value == data[nav.path]
        value == condition.value
        operator == condition.operator
    IN  IF ~nav.found THEN "false"
        ELSE CASE operator = "eq" ->
                      IF PyEq(actual_value, value) THEN "true" ELSE "false"
               [] operator = "neq" ->
                      IF PyEq(actual_value, value) THEN "false" ELSE "true"
               [] operator = "gt" -> PyGreater(actual_value, value)
               [] operator = "lt" -> PyGreater(value, actual_value)
               [] operator = "contains" ->
                      IF actual_value.t \in {"str", "map", "list"}
                      THEN PyIn(value, data, nav.path) ELSE "false"
               [] operator = "regex" ->
                      IF value.t # "str" \/ value.s \in InvalidPatterns THEN "raise"
                      ELSE IF regex_search(value.s, data, nav.path)
                           THEN "true" ELSE "false"
               [] OTHER -> "false"

\* any() in place of all().
RECURSIVE check_all_conditions_any(_, _)
check_all_conditions_any(conditions, data) ==
    IF conditions = <<>> THEN "false"
    ELSE LET c == check_condition(Head(conditions), data) IN
         IF c = "false" THEN check_all_conditions_any(Tail(conditions), data) ELSE c

\* _check_all_conditions: all() stops at the first false condition, and a
\* condition that throws ends the evaluation with the exception.
RECURSIVE check_all_conditions(_, _)
check_all_conditions(conditions, data) ==
    IF conditions = <<>> THEN "true"
    ELSE LET c == check_condition(Head(conditions), data) IN
         IF c = "true" THEN check_all_conditions(Tail(conditions), data) ELSE c

(***************************************************************************)
(* ActionChain: the default actions and caller-supplied callables          *)
(***************************************************************************)
IsDict(data, path) == Has(data, path) /\ data[path].t = "map"

\* add_to_crm: x.get(...) on a value that is not a dict is an AttributeError.
add_to_crm(data) ==
    LET format_type == Get(data, <<>>, "format", NoneV)
        pd == <<"processed_data">>
        fd == <<"processed_data", "flowbit_data">>
    IN  IF PyEq(format_type, Str("Email"))
        THEN IF Has(data, pd) /\ ~IsDict(data, pd)
             THEN [raised |-> TRUE, result |-> "AttributeError"]
             ELSE [raised |-> FALSE, result |-> "contact_added"]
        ELSE IF PyEq(format_type, Str("JSON"))
        THEN IF (Has(data, pd) /\ ~IsDict(data, pd))
                \/ (Has(data, fd) /\ ~IsDict(data, fd))
             THEN [raised |-> TRUE, result |-> "AttributeError"]
             ELSE [raised |-> FALSE, result |-> "order_added"]
        ELSE [raised |-> FALSE, result |-> "not_applicable"]

send_email_notification(data) == [raised |-> FALSE, result |-> "email"]

flag_for_review(data) == [raised |-> FALSE, result |-> "flagged"]

generate_compliance_report(data) ==
    IF PyEq(Get(data, <<>>, "intent", NoneV), Str("Regulation"))
    THEN [raised |-> FALSE, result |-> "compliance"]
    ELSE [raised |-> FALSE, result |-> "not_applicable"]

\* action_func(data) for the functions a caller can register; "failing_action"
\* is a callable that throws on every call.
call_action(action_func, data) ==
    CASE action_func = "send_email_notification" -> send_email_notification(data)
      [] action_func = "add_to_crm" -> add_to_crm(data)
      [] action_func = "flag_for_review" -> flag_for_review(data)
      [] action_func = "generate_compliance_report" -> generate_compliance_report(data)
      [] action_func = "failing_action" -> [raised |-> TRUE, result |-> "Exception"]

(***************************************************************************)
(* ActionChain: registries                                                 *)
(***************************************************************************)
\* Index of chain_id in the insertion-ordered dict, 0 when it is not a key.
chain_index(chains, chain_id) ==
    IF \E i \in 1..Len(chains) : chains[i].chain_id = chain_id
    THEN CHOOSE i \in 1..Len(chains) : chains[i].chain_id = chain_id
    ELSE 0

register_action(actions_reg, action_id, action_func) ==
    IF action_id \in DOMAIN actions_reg
    THEN [ok |-> FALSE, registered_actions |-> actions_reg]
    ELSE [ok |-> TRUE, registered_actions |-> actions_reg @@ (action_id :> action_func)]

\* define_chain without the duplicate check: the dict assignment replaces the
\* stored chain of an id that is already a key.
define_chain_overwrite(chains, actions_reg, chain_id, conditions, actions, now) ==
    LET new == [chain_id |-> chain_id, conditions |-> conditions,
                actions |-> actions, created_at |-> now]
    IN  IF \E i \in 1..Len(actions) : actions[i] \notin DOMAIN actions_reg
        THEN [ok |-> FALSE, action_chains |-> chains]
        ELSE IF chain_index(chains, chain_id) # 0
        THEN [ok |-> TRUE,
              action_chains |-> [chains EXCEPT ![chain_index(chains, chain_id)] = new]]
        ELSE [ok |-> TRUE, action_chains |-> Append(chains, new)]

\* define_chain without the validation of the action ids.
define_chain_unvalidated(chains, actions_reg, chain_id, conditions, actions, now) ==
    IF chain_index(chains, chain_id) # 0
    THEN [ok |-> FALSE, action_chains |-> chains]
    ELSE [ok |-> TRUE,
          action_chains |-> Append(chains, [chain_id |-> chain_id,
                                            conditions |-> conditions,
                                            actions |-> actions,
                                            created_at |-> now])]

define_chain(chains, actions_reg, chain_id, conditions, actions, now) ==
    IF chain_index(chains, chain_id) # 0
    THEN [ok |-> FALSE, action_chains |-> chains]
    ELSE IF \E i \in 1..Len(actions) : actions[i] \notin DOMAIN actions_reg
    THEN [ok |-> FALSE, action_chains |-> chains]
    ELSE [ok |-> TRUE,
          action_chains |-> Append(chains, [chain_id |-> chain_id,
                                            conditions |-> conditions,
                                            actions |-> actions,
                                            created_at |-> now])]

(***************************************************************************)
(* ActionChain.process                                                     *)
(***************************************************************************)
\* The inner loop with the try around the whole loop: the first action that
\* throws is recorded and ends the chain.
RECURSIVE run_actions_abort(_, _, _, _, _)
run_actions_abort(actions_reg, chain, data, i, acc) ==
    IF i > Len(chain.actions) THEN acc
    ELSE LET action_id == chain.actions[i] IN
         IF action_id \notin DOMAIN actions_reg
         THEN run_actions_abort(actions_reg, chain, data, i + 1, acc)
         ELSE LET r == call_action(actions_reg[action_id], data)
                  entry == [action_id |-> action_id,
                            success |-> ~r.raised,
                            result |-> IF r.raised THEN "" ELSE r.result,
                            error |-> IF r.raised THEN r.result ELSE ""]
                  next == [chain_results |-> Append(acc.chain_results, entry),
                           calls |-> Append(acc.calls,
                                       [chain_id |-> chain.chain_id,
                                        action_id |-> action_id])]
              IN  IF r.raised THEN next
                  ELSE run_actions_abort(actions_reg, chain, data, i + 1, next)

\* The inner loop over set(chain["actions"]): an action id listed twice runs
\* once.
RECURSIVE run_actions_once(_, _, _, _, _)
run_actions_once(actions_reg, chain, data, i, acc) ==
    IF i > Len(chain.actions) THEN acc
    ELSE LET action_id == chain.actions[i] IN
         IF \/ action_id \notin DOMAIN actions_reg
            \/ \E j \in 1..(i - 1) : chain.actions[j] = action_id
         THEN run_actions_once(actions_reg, chain, data, i + 1, acc)
         ELSE LET r == call_action(actions_reg[action_id], data)
                  entry == [action_id |-> action_id,
                            success |-> ~r.raised,
                            result |-> IF r.raised THEN "" ELSE r.result,
                            error |-> IF r.raised THEN r.result ELSE ""]
              IN  run_actions_once(actions_reg, chain, data, i + 1,
                      [chain_results |-> Append(acc.chain_results, entry),
                       calls |-> Append(acc.calls,
                                   [chain_id |-> chain.chain_id,
                                    action_id |-> action_id])])

\* The inner for loop: run the chain's actions from position i on.  acc
\* carries chain_results and the calls made so far.
RECURSIVE run_actions(_, _, _, _, _)
run_actions(actions_reg, chain, data, i, acc) ==
    IF i > Len(chain.actions) THEN acc
    ELSE LET action_id == chain.actions[i] IN
         IF action_id \notin DOMAIN actions_reg
         THEN run_actions(actions_reg, chain, data, i + 1, acc)
         ELSE LET r == call_action(actions_reg[action_id], data)
                  entry == [action_id |-> action_id,
                            success |-> ~r.raised,
                            result |-> IF r.raised THEN "" ELSE r.result,
                            error |-> IF r.raised THEN r.result ELSE ""]
              IN  run_actions(actions_reg, chain, data, i + 1,
                      [chain_results |-> Append(acc.chain_results, entry),
                       calls |-> Append(acc.calls,
                                   [chain_id |-> chain.chain_id,
                                    action_id |-> action_id])])

\* The outer for loop over action_chains.items(), from position k on.
RECURSIVE process_from(_, _, _, _, _, _)
process_from(chains, actions_reg, data, now, k, acc) ==
    IF k > Len(chains) THEN acc
    ELSE LET chain == chains[k]
             c == check_all_conditions(chain.conditions, data)
         IN  IF c = "raise"
             THEN [acc EXCEPT !.outcome = "raised", !.results = <<>>]
             ELSE IF c = "false"
             THEN process_from(chains, actions_reg, data, now, k + 1, acc)
             ELSE LET run == run_actions(actions_reg, chain, data, 1,
                                 [chain_results |-> <<>>, calls |-> acc.calls])
                  IN  process_from(chains, actions_reg, data, now, k + 1,
                          [outcome |-> "returned",
                           results |-> Append(acc.results,
                                         [chain_id |-> chain.chain_id,
                                          triggered_at |-> now,
                                          actions |-> run.chain_results]),
                           calls |-> run.calls])

\* process(data): outcome "returned" with the results list, or "raised" when
\* an exception leaves the method; calls is the sequence of action calls made.
process(chains, actions_reg, data, now) ==
    process_from(chains, actions_reg, data, now, 1,
                 [outcome |-> "returned", results |-> <<>>, calls |-> <<>>])

(***************************************************************************)
(* AlertSystem                                                             *)
(***************************************************************************)
\* data.get("processed_data", {}).get(key, default): the value, or "raise"
\* (AttributeError) when processed_data is present and not a dict.
pd_get_raises(data) ==
    Has(data, <<"processed_data">>) /\ ~IsDict(data, <<"processed_data">>)

\* The four lambdas of __init__ and the predicates a caller can add.
eval_condition(condition, data) ==
    LET format == Get(data, <<>>, "format", NoneV)
        intent == Get(data, <<>>, "intent", NoneV)
        pd == <<"processed_data">>
        fd == <<"processed_data", "flowbit_data">>
    IN  CASE condition = "urgent_email" ->
                 IF ~PyEq(format, Str("Email")) THEN "false"
                 ELSE IF pd_get_raises(data) THEN "raise"
                 ELSE IF PyEq(Get(data, pd, "urgency", NoneV), Str("High"))
                      THEN "true" ELSE "false"
          [] condition = "invoice_alert" ->
                 IF ~PyEq(format, Str("JSON")) THEN "false"
                 ELSE IF ~PyEq(intent, Str("Invoice")) THEN "false"
                 ELSE IF pd_get_raises(data) THEN "raise"
                 ELSE IF Has(data, fd) /\ ~IsDict(data, fd) THEN "raise"
                 ELSE PyGreater(Get(data, fd, "total_amount", Num(0)), Num(1000))
          [] condition = "pdf_regulation" ->
                 IF PyEq(format, Str("PDF")) /\ PyEq(intent, Str("Regulation"))
                 THEN "true" ELSE "false"
          [] condition = "multiple_anomalies" ->
                 IF ~PyEq(format, Str("JSON")) THEN "false"
                 ELSE IF pd_get_raises(data) THEN "raise"
                 ELSE LET a == Get(data, pd, "anomalies", ListV(0, {})) IN
                      IF a.t \notin {"list", "str", "map"} THEN "raise"
                      ELSE IF a.t = "list" /\ a.n >= 3 THEN "true" ELSE "false"
          \* lambda data: False, the default of the /alerts/rule endpoint
          [] condition = "const_false" -> "false"
          \* lambda data: data["error"] == "Unsupported format"
          [] condition = "is_error" ->
                 IF ~Has(data, <<"error">>) THEN "raise"
                 ELSE IF PyEq(data[<<"error">>], Str("Unsupported format"))
                      THEN "true" ELSE "false"
          \* lambda data: data.get("format") == "JSON"
          [] condition = "is_json" ->
                 IF PyEq(format, Str("JSON")) THEN "true" ELSE "false"

BuiltinRules ==
    << [id |-> "urgent_email", condition |-> "urgent_email",
        message |-> "Urgent email received that requires immediate attention",
        level |-> "high"],
       [id |-> "invoice_alert", condition |-> "invoice_alert",
        message |-> "High-value invoice detected", level |-> "medium"],
       [id |-> "pdf_regulation", condition |-> "pdf_regulation",
        message |-> "Regulatory document received that requires compliance review",
        level |-> "medium"],
       [id |-> "multiple_anomalies", condition |-> "multiple_anomalies",
        message |-> "Multiple anomalies detected in JSON data", level |-> "high"] >>

rule_index(rules, rule_id) ==
    IF \E i \in 1..Len(rules) : rules[i].id = rule_id
    THEN CHOOSE i \in 1..Len(rules) : rules[i].id = rule_id
    ELSE 0

\* add_custom_rule without the duplicate check: the assignment replaces the
\* rule stored under the id.
add_custom_rule_overwrite(rules, rule_id, condition, message, level) ==
    LET new == [id |-> rule_id, condition |-> condition,
                message |-> message, level |-> level]
    IN  IF rule_index(rules, rule_id) # 0
        THEN [ok |-> TRUE,
              alert_rules |-> [rules EXCEPT ![rule_index(rules, rule_id)] = new]]
        ELSE [ok |-> TRUE, alert_rules |-> Append(rules, new)]

add_custom_rule(rules, rule_id, condition, message, level) ==
    IF rule_index(rules, rule_id) # 0
    THEN [ok |-> FALSE, alert_rules |-> rules]
    ELSE [ok |-> TRUE,
          alert_rules |-> Append(rules, [id |-> rule_id, condition |-> condition,
                                         message |-> message, level |-> level])]

\* check_alerts with the try around the loop: the first predicate that throws
\* ends the evaluation of the rules.
RECURSIVE check_alerts_from_abort(_, _, _, _, _)
check_alerts_from_abort(rules, data, now, k, triggered_alerts) ==
    IF k > Len(rules)
    THEN [outcome |-> "returned", alerts |-> triggered_alerts]
    ELSE LET rule == rules[k]
             c == eval_condition(rule.condition, data)
         IN  IF c = "raise"
             THEN [outcome |-> "returned", alerts |-> triggered_alerts]
             ELSE IF c = "true"
             THEN check_alerts_from_abort(rules, data, now, k + 1,
                      Append(triggered_alerts,
                             [id |-> rule.id, message |-> rule.message,
                              level |-> rule.level, timestamp |-> now,
                              format |-> Get(data, <<>>, "format", Str("Unknown")).s,
                              intent |-> Get(data, <<>>, "intent", Str("Unknown")).s]))
             ELSE check_alerts_from_abort(rules, data, now, k + 1, triggered_alerts)

\* The loop of check_alerts from rule k on; a rule whose predicate throws is
\* printed and skipped.
RECURSIVE check_alerts_from(_, _, _, _, _)
check_alerts_from(rules, data, now, k, triggered_alerts) ==
    IF k > Len(rules)
    THEN [outcome |-> "returned", alerts |-> triggered_alerts]
    ELSE LET rule == rules[k] IN
         IF eval_condition(rule.condition, data) = "true"
         THEN check_alerts_from(rules, data, now, k + 1,
                  Append(triggered_alerts,
                         [id |-> rule.id, message |-> rule.message,
                          level |-> rule.level, timestamp |-> now,
                          format |-> Get(data, <<>>, "format", Str("Unknown")).s,
                          intent |-> Get(data, <<>>, "intent", Str("Unknown")).s]))
         ELSE check_alerts_from(rules, data, now, k + 1, triggered_alerts)

\* check_alerts(data): the triggered alerts; the caller appends the same
\* alerts to alerts_history.
check_alerts(rules, data, now) == check_alerts_from(rules, data, now, 1, <<>>)

(***************************************************************************)
(* Inputs of the calls                                                     *)
(***************************************************************************)
Cond(field, operator, value) ==
    [field |-> field, operator |-> operator, value |-> value]

Operators == { "eq", "neq", "gt", "lt", "contains", "regex", "between" }

CondValues == { NoneV, Num(1000), Str("JSON"), Str("Hi"), Str("(") }

HighValueConditions ==
    << Cond("format", "eq", Str("JSON")),
       Cond("processed_data.flowbit_data.total_amount", "gt", Num(1000)) >>

UrgentEmailConditions ==
    << Cond("format", "eq", Str("Email")),
       Cond("processed_data.urgency", "eq", Str("High")) >>

RegulationConditions ==
    << Cond("format", "eq", Str("PDF")),
       Cond("intent", "eq", Str("Regulation")) >>

ActionIds == { "add_to_crm", "email_notification" }

ActionFuncs == { "add_to_crm", "failing_action" }

ChainIds == { "chain_a", "chain_b" }

ConditionLists ==
    { HighValueConditions, << Cond("intent", "neq", Str("Regulation")) >> }

ActionLists ==
    { << "add_to_crm", "email_notification" >>,
      << "email_notification", "add_to_crm", "email_notification" >> }

RuleIds == { "custom_rule", "urgent_email" }

CustomConditions == { "is_error", "is_json" }

FourAnomalies ==
    << "Missing required field: items", "Missing required field: total_amount",
       "Missing required field: currency", "Missing required field: delivery_date" >>

AllEnvelopes ==
    { JsonEnvelope("Invoice", Num(1500), << >>),
      JsonEnvelope("Invoice", NoneV, FourAnomalies),
      JsonEnvelope("Other", Num(500), << "Missing required field: items" >>),
      EmailEnvelope("Other", "High"),
      EmailEnvelope("Other", "Low"),
      PdfEnvelope("Regulation"),
      ErrorEnvelope,
      RawEnvelope("Email"),
      RawEnvelope("JSON") }

\* The envelopes the calls of process and check_alerts are made with.
Envelopes ==
    { JsonEnvelope("Invoice", Num(1500), << >>),
      JsonEnvelope("Invoice", NoneV, FourAnomalies),
      JsonEnvelope("Other", Num(500), << "Missing required field: items" >>),
      PdfEnvelope("Regulation"),
      ErrorEnvelope,
      RawEnvelope("Email") }

EmptyData == (<< >> :> MapV)

(***************************************************************************)
(* State after construction: ActionChain() and AlertSystem()              *)
(***************************************************************************)
NoCall ==
    [op |-> "none", id |-> "", func |-> "", conditions |-> << >>,
     actions |-> << >>, data |-> EmptyData, ok |-> FALSE, outcome |-> "",
     results |-> << >>, calls |-> << >>, alerts |-> << >>]

NoInput == [condition |-> Cond("", "eq", NoneV), data |-> EmptyData,
            result |-> "", done |-> FALSE]

NoRequest ==
    [op |-> "none", input |-> << >>, outcome |-> "", format |-> "", intent |-> "",
     flowbit_data |-> << >>, anomalies |-> << >>, alerts |-> << >>, actions |-> << >>]

Init ==
    /\ registered_actions = << >>
    /\ action_chains = << >>
    /\ alert_rules = BuiltinRules
    /\ alerts_history = << >>
    /\ clock = 0
    /\ lastCall = NoCall
    /\ threads = << >>
    /\ cond_in = NoInput
    /\ memory = << >>
    /\ pipeline = NoRequest

(***************************************************************************)
(* Calls, one at a time                                                    *)
(***************************************************************************)
RegisterAction(action_id, action_func) ==
    LET r == register_action(registered_actions, action_id, action_func) IN
    /\ registered_actions' = r.registered_actions
    /\ lastCall' = [NoCall EXCEPT !.op = "register_action", !.id = action_id,
                                  !.func = action_func, !.ok = r.ok]
    /\ UNCHANGED <<action_chains, alert_rules, alerts_history, clock, threads, cond_in, pipeline, memory>>

DefineChain(chain_id, conditions, actions) ==
    LET r == define_chain(action_chains, registered_actions, chain_id,
                          conditions, actions, clock) IN
    /\ action_chains' = r.action_chains
    /\ lastCall' = [NoCall EXCEPT !.op = "define_chain", !.id = chain_id,
                                  !.conditions = conditions,
                                  !.actions = actions, !.ok = r.ok]
    /\ UNCHANGED <<registered_actions, alert_rules, alerts_history, clock, threads, cond_in, pipeline, memory>>

AddCustomRule(rule_id, condition, level) ==
    LET r == add_custom_rule(alert_rules, rule_id, condition, "Custom alert", level) IN
    /\ alert_rules' = r.alert_rules
    /\ lastCall' = [NoCall EXCEPT !.op = "add_custom_rule", !.id = rule_id,
                                  !.func = condition, !.ok = r.ok]
    /\ UNCHANGED <<registered_actions, action_chains, alerts_history, clock, threads, cond_in, pipeline, memory>>

Process(data) ==
    LET r == process(action_chains, registered_actions, data, clock) IN
    /\ lastCall' = [NoCall EXCEPT !.op = "process", !.data = data,
                                  !.outcome = r.outcome, !.results = r.results,
                                  !.calls = r.calls]
    /\ UNCHANGED <<registered_actions, action_chains, alert_rules, alerts_history,
                   clock, threads, cond_in, pipeline, memory>>

CheckAlerts(data) ==
    LET r == check_alerts(alert_rules, data, clock) IN
    /\ Len(alerts_history) < MaxHistory
    /\ alerts_history' = alerts_history \o r.alerts
    /\ lastCall' = [NoCall EXCEPT !.op = "check_alerts", !.data = data,
                                  !.outcome = r.outcome, !.alerts = r.alerts]
    /\ UNCHANGED <<registered_actions, action_chains, alert_rules, clock, threads, cond_in, pipeline, memory>>

Next ==
    \/ \E a \in ActionIds, f \in ActionFuncs : RegisterAction(a, f)
    \/ \E c \in ChainIds, cs \in ConditionLists, as \in ActionLists :
           DefineChain(c, cs, as)
    \/ \E r \in RuleIds, c \in CustomConditions : AddCustomRule(r, c, "medium")
    \/ \E d \in Envelopes : Process(d)
    \/ \E d \in Envelopes : CheckAlerts(d)

Spec == Init /\ [][Next]_vars

(***************************************************************************)
(* Properties of the registries and of process / check_alerts              *)
(***************************************************************************)
StoredChain(chains, chain_id) == chains[chain_index(chains, chain_id)]

IsRegisteredChain(chains, chain_id) == chain_index(chains, chain_id) # 0

ActionsAllRegistered(actions) ==
    \A i \in 1..Len(actions) : actions[i] \in DOMAIN registered_actions

\* C1: a define_chain call with the id of a chain that is already registered
\* returns failure, and the stored chain keeps the conditions and actions of
\* the first registration.
C1_DuplicateChainRejected ==
    [][ (lastCall'.op = "define_chain" /\ IsRegisteredChain(action_chains, lastCall'.id))
        => /\ ~lastCall'.ok
           /\ IsRegisteredChain(action_chains', lastCall'.id)
           /\ StoredChain(action_chains', lastCall'.id).conditions
                  = StoredChain(action_chains, lastCall'.id).conditions
           /\ StoredChain(action_chains', lastCall'.id).actions
                  = StoredChain(action_chains, lastCall'.id).actions ]_vars

\* C1 witness: a rejected second registration that offered other conditions
\* and other actions, all of them registered, for a registered id.
C1_Witness ==
    /\ lastCall.op = "define_chain"
    /\ ~lastCall.ok
    /\ IsRegisteredChain(action_chains, lastCall.id)
    /\ ActionsAllRegistered(lastCall.actions)
    /\ StoredChain(action_chains, lastCall.id).conditions # lastCall.conditions
    /\ StoredChain(action_chains, lastCall.id).actions # lastCall.actions

\* C2: a define_chain call whose action list names an action that is not in
\* the action registry returns failure and leaves the chain registry as it
\* was, so an unregistered chain id stays unregistered.
C2_UnknownActionRejected ==
    [][ (lastCall'.op = "define_chain" /\ ~ActionsAllRegistered(lastCall'.actions))
        => /\ ~lastCall'.ok
           /\ action_chains' = action_chains
           /\ (~IsRegisteredChain(action_chains, lastCall'.id)
                  => ~IsRegisteredChain(action_chains', lastCall'.id)) ]_vars

\* C2 witness: a rejected registration of a fresh chain id whose action list
\* has a registered and an unregistered action.
C2_Witness ==
    /\ lastCall.op = "define_chain"
    /\ ~lastCall.ok
    /\ ~IsRegisteredChain(action_chains, lastCall.id)
    /\ \E i \in 1..Len(lastCall.actions) : lastCall.actions[i] \in DOMAIN registered_actions
    /\ \E i \in 1..Len(lastCall.actions) : lastCall.actions[i] \notin DOMAIN registered_actions

AllConditionsTrue(conditions, data) ==
    \A j \in 1..Len(conditions) : check_condition(conditions[j], data) = "true"

InResults(results, chain_id) ==
    \E k \in 1..Len(results) : results[k].chain_id = chain_id

\* C3: the list process returns has an entry for a registered chain if and
\* only if every condition of the chain evaluates true on the envelope.
C3_TriggeredIffAllConditions ==
    (lastCall.op = "process" /\ lastCall.outcome = "returned")
    => \A i \in 1..Len(action_chains) :
          InResults(lastCall.results, action_chains[i].chain_id)
          <=> AllConditionsTrue(action_chains[i].conditions, lastCall.data)

\* C3 witness: process returned with one chain triggered and another chain,
\* with a true and a false condition, left out.
C3_Witness ==
    /\ lastCall.op = "process"
    /\ lastCall.outcome = "returned"
    /\ \E i, j \in 1..Len(action_chains) :
          /\ InResults(lastCall.results, action_chains[i].chain_id)
          /\ ~InResults(lastCall.results, action_chains[j].chain_id)
          /\ \E m, n \in 1..Len(action_chains[j].conditions) :
                /\ check_condition(action_chains[j].conditions[m], lastCall.data) = "true"
                /\ check_condition(action_chains[j].conditions[n], lastCall.data) = "false"

\* The results entry of a chain, and the calls process made for a chain.
EntryOf(results, chain_id) ==
    results[CHOOSE k \in 1..Len(results) : results[k].chain_id = chain_id]

CallsOf(calls, chain_id) ==
    LET OfChain(c) == c.chain_id = chain_id IN SelectSeq(calls, OfChain)

ActionRaises(action_id, data) ==
    call_action(registered_actions[action_id], data).raised

NoConditionRaises(data) ==
    \A i \in 1..Len(action_chains) :
       \A j \in 1..Len(action_chains[i].conditions) :
          check_condition(action_chains[i].conditions[j], data) # "raise"

\* C5: an action that raises during process is recorded with success false
\* and its error, every later action of its chain is still called and
\* reported, every other matching chain still gets its entry, and process
\* returns (no action failure leaves process).
C5_ActionFailureIsolated ==
    lastCall.op = "process"
    => /\ NoConditionRaises(lastCall.data) => lastCall.outcome = "returned"
       /\ lastCall.outcome = "returned"
          => \A i \in 1..Len(action_chains) :
                LET chain == action_chains[i] IN
                AllConditionsTrue(chain.conditions, lastCall.data)
                => /\ InResults(lastCall.results, chain.chain_id)
                   /\ LET entry == EntryOf(lastCall.results, chain.chain_id)
                          made == CallsOf(lastCall.calls, chain.chain_id)
                      IN  /\ Len(entry.actions) = Len(chain.actions)
                          /\ Len(made) = Len(chain.actions)
                          /\ \A p \in 1..Len(chain.actions) :
                                ActionRaises(chain.actions[p], lastCall.data)
                                => /\ entry.actions[p].action_id = chain.actions[p]
                                   /\ ~entry.actions[p].success
                                   /\ entry.actions[p].error # ""
                                   /\ \A q \in (p + 1)..Len(chain.actions) :
                                         /\ made[q].action_id = chain.actions[q]
                                         /\ entry.actions[q].action_id = chain.actions[q]

\* C5 witness: process returned; the first triggered chain has an action that
\* raised followed by an action that succeeded, and a second chain was
\* triggered after it.
C5_Witness ==
    /\ lastCall.op = "process"
    /\ lastCall.outcome = "returned"
    /\ Len(lastCall.results) = 2
    /\ \E p, q \in 1..Len(lastCall.results[1].actions) :
          /\ p < q
          /\ ~lastCall.results[1].actions[p].success
          /\ lastCall.results[1].actions[q].success

\* C6: for each chain in the results of one process call, the calls made for
\* the chain are its declared action list, entry by entry and in order, the
\* outcomes are reported in the same order, and no chain has two entries.
C6_ActionsInDeclaredOrder ==
    (lastCall.op = "process" /\ lastCall.outcome = "returned")
    => /\ \A k \in 1..Len(lastCall.results) :
             /\ IsRegisteredChain(action_chains, lastCall.results[k].chain_id)
             /\ LET chain == StoredChain(action_chains, lastCall.results[k].chain_id)
                    made == CallsOf(lastCall.calls, chain.chain_id)
                IN  /\ [p \in 1..Len(made) |-> made[p].action_id] = chain.actions
                    /\ [p \in 1..Len(lastCall.results[k].actions) |->
                           lastCall.results[k].actions[p].action_id] = chain.actions
       /\ \A k, m \in 1..Len(lastCall.results) :
             lastCall.results[k].chain_id = lastCall.results[m].chain_id => k = m
       /\ \A n \in 1..Len(lastCall.calls) :
             InResults(lastCall.results, lastCall.calls[n].chain_id)

\* C6 witness: a triggered chain whose action list names one action twice,
\* with three calls made and three outcomes reported.
C6_Witness ==
    /\ lastCall.op = "process"
    /\ lastCall.outcome = "returned"
    /\ \E k \in 1..Len(lastCall.results) :
          /\ Len(lastCall.results[k].actions) = 3
          /\ lastCall.results[k].actions[1].action_id
                = lastCall.results[k].actions[3].action_id
          /\ Len(CallsOf(lastCall.calls, lastCall.results[k].chain_id)) = 3

\* C8: no call removes or changes a registered action, chain or alert rule,
\* and process and check_alerts leave the three registries as they were.
C8_RegistrationIrreversible ==
    [][ /\ \A a \in DOMAIN registered_actions :
              /\ a \in DOMAIN registered_actions'
              /\ registered_actions'[a] = registered_actions[a]
        /\ \A i \in 1..Len(action_chains) :
              /\ IsRegisteredChain(action_chains', action_chains[i].chain_id)
              /\ StoredChain(action_chains', action_chains[i].chain_id) = action_chains[i]
        /\ \A i \in 1..Len(alert_rules) :
              /\ rule_index(alert_rules', alert_rules[i].id) # 0
              /\ alert_rules'[rule_index(alert_rules', alert_rules[i].id)] = alert_rules[i]
        /\ lastCall'.op \in {"process", "check_alerts"}
              => /\ registered_actions' = registered_actions
                 /\ action_chains' = action_chains
                 /\ alert_rules' = alert_rules ]_vars

\* C8 witness: a rejected add_custom_rule for the id of a stored rule, with
\* chains, actions and a custom rule registered.
C8_Witness ==
    /\ lastCall.op = "add_custom_rule"
    /\ ~lastCall.ok
    /\ Len(alert_rules) > Len(BuiltinRules)
    /\ alert_rules[rule_index(alert_rules, lastCall.id)].condition # lastCall.func
    /\ Len(action_chains) = 2
    /\ DOMAIN registered_actions = ActionIds

TrueRules(rules, data) ==
    { i \in 1..Len(rules) : eval_condition(rules[i].condition, data) = "true" }

\* C9: check_alerts returns one alert for each rule whose predicate is true
\* and no other alert, each with the rule's id, message and level and the
\* time of the call; a rule whose predicate raises yields no alert and the
\* call still returns, with the alerts of the rules after it.
C9_AlertsAreTrueRules ==
    lastCall.op = "check_alerts"
    => /\ lastCall.outcome = "returned"
       /\ Len(lastCall.alerts) = Cardinality(TrueRules(alert_rules, lastCall.data))
       /\ \A i \in TrueRules(alert_rules, lastCall.data) :
             \E k \in 1..Len(lastCall.alerts) :
                /\ lastCall.alerts[k].id = alert_rules[i].id
                /\ lastCall.alerts[k].message = alert_rules[i].message
                /\ lastCall.alerts[k].level = alert_rules[i].level
                /\ lastCall.alerts[k].timestamp = clock

\* C9 witness: a call in which one rule's predicate raised and a later rule
\* produced an alert.
C9_Witness ==
    /\ lastCall.op = "check_alerts"
    /\ \E i, j \in 1..Len(alert_rules) :
          /\ i < j
          /\ eval_condition(alert_rules[i].condition, lastCall.data) = "raise"
          /\ \E k \in 1..Len(lastCall.alerts) : lastCall.alerts[k].id = alert_rules[j].id

(***************************************************************************)
(* _check_condition on its own: every field, operator and value of the     *)
(* model against every envelope                                            *)
(***************************************************************************)
InitCond ==
    /\ registered_actions = << >>
    /\ action_chains = << >>
    /\ alert_rules = BuiltinRules
    /\ alerts_history = << >>
    /\ clock = 0
    /\ lastCall = NoCall
    /\ threads = << >>
    /\ memory = << >>
    /\ pipeline = NoRequest
    /\ \E f \in Fields, o \in Operators, v \in CondValues, d \in AllEnvelopes :
          cond_in = [condition |-> Cond(f, o, v), data |-> d,
                     result |-> "", done |-> FALSE]

CheckCondition ==
    /\ ~cond_in.done
    /\ cond_in' = [cond_in EXCEPT
                      !.result = check_condition(cond_in.condition, cond_in.data),
                      !.done = TRUE]
    /\ UNCHANGED <<registered_actions, action_chains, alert_rules, alerts_history,
                   clock, lastCall, threads, pipeline, memory>>

NextCond == CheckCondition

SpecCond == InitCond /\ [][NextCond]_vars

\* Some segment of the path is not a key of the envelope: a prefix of the
\* split field that the envelope does not hold (a value that is not a
\* mapping holds no keys).
PathMissing(field, data) ==
    \E k \in 1..Len(split(field)) : ~Has(data, SubSeq(split(field), 1, k))

\* C4: a condition whose field path has an absent segment, or runs through
\* a value that is not a mapping, evaluates to false without raising,
\* whatever its operator and value.
C4_MissingPathIsFalse ==
    (cond_in.done /\ PathMissing(cond_in.condition.field, cond_in.data))
    => cond_in.result = "false"

\* C4 witness: a regex condition with an invalid pattern on a path that runs
\* through a str value has evaluated to false.
C4_Witness ==
    /\ cond_in.done
    /\ cond_in.condition.field = "processed_data.urgency.level"
    /\ Has(cond_in.data, <<"processed_data", "urgency">>)
    /\ cond_in.data[<<"processed_data", "urgency">>].t = "str"
    /\ cond_in.condition.operator = "regex"
    /\ cond_in.condition.value = Str("(")
    /\ cond_in.result = "false"

(***************************************************************************)
(* Registration from concurrent callers.  Neither class holds a lock: a    *)
(* registration is a membership test, for define_chain the validation of   *)
(* the action ids, and a dict assignment, and another caller can run       *)
(* between any two of them.                                                *)
(***************************************************************************)
NumThreads == 2

Threads == 1..NumThreads

\* register_default_actions: the four registrations of a fresh ActionChain.
DefaultActions ==
    ("email_notification" :> "send_email_notification")
    @@ ("add_to_crm" :> "add_to_crm")
    @@ ("flag_for_review" :> "flag_for_review")
    @@ ("compliance_report" :> "generate_compliance_report")

IdleThread ==
    [pc |-> "idle", op |-> "", id |-> "", func |-> "", conditions |-> << >>,
     actions |-> << >>, ok |-> FALSE]

\* The registrations the concurrent callers make: one id per registry, two
\* definitions for each.
ConcurrentCalls ==
    { [IdleThread EXCEPT !.op = "register_action", !.id = "notify", !.func = f] :
          f \in { "send_email_notification", "failing_action" } }
    \cup { [IdleThread EXCEPT !.op = "define_chain", !.id = "chain_a",
                              !.conditions = cs,
                              !.actions = << "add_to_crm", "email_notification" >>] :
               cs \in ConditionLists }
    \cup { [IdleThread EXCEPT !.op = "add_custom_rule", !.id = "custom_rule",
                              !.func = c] : c \in CustomConditions }

InitConc ==
    /\ registered_actions = DefaultActions
    /\ action_chains = << >>
    /\ alert_rules = BuiltinRules
    /\ alerts_history = << >>
    /\ clock = 0
    /\ lastCall = NoCall
    /\ threads = [t \in Threads |-> IdleThread]
    /\ cond_in = NoInput
    /\ memory = << >>
    /\ pipeline = NoRequest

\* id in registry, as the thread's registration method tests it.
id_in_registry(th) ==
    CASE th.op = "register_action" -> th.id \in DOMAIN registered_actions
      [] th.op = "define_chain" -> chain_index(action_chains, th.id) # 0
      [] th.op = "add_custom_rule" -> rule_index(alert_rules, th.id) # 0

\* registry[key] = value on an insertion-ordered dict: a key that is present
\* keeps its position and gets the new value.
dict_assign(registry, index, value) ==
    IF index # 0 THEN [registry EXCEPT ![index] = value] ELSE Append(registry, value)

\* A caller enters a registration method.
Call(t, call) ==
    /\ threads[t].pc = "idle"
    /\ threads' = [threads EXCEPT ![t] = [call EXCEPT !.pc = "check"]]
    /\ UNCHANGED <<registered_actions, action_chains, alert_rules, alerts_history,
                   clock, lastCall, cond_in, pipeline, memory>>

\* if id in registry: return False
CheckStep(t) ==
    /\ threads[t].pc = "check"
    /\ threads' = [threads EXCEPT ![t] =
                      IF id_in_registry(threads[t])
                      THEN [@ EXCEPT !.pc = "done", !.ok = FALSE]
                      ELSE IF @.op = "define_chain"
                      THEN [@ EXCEPT !.pc = "validate"]
                      ELSE [@ EXCEPT !.pc = "write"]]
    /\ UNCHANGED <<registered_actions, action_chains, alert_rules, alerts_history,
                   clock, lastCall, cond_in, pipeline, memory>>

\* define_chain: for action_id in actions: if not registered: return False
ValidateStep(t) ==
    /\ threads[t].pc = "validate"
    /\ threads' = [threads EXCEPT ![t] =
                      IF \E i \in 1..Len(@.actions) :
                            @.actions[i] \notin DOMAIN registered_actions
                      THEN [@ EXCEPT !.pc = "done", !.ok = FALSE]
                      ELSE [@ EXCEPT !.pc = "write"]]
    /\ UNCHANGED <<registered_actions, action_chains, alert_rules, alerts_history,
                   clock, lastCall, cond_in, pipeline, memory>>

\* registry[id] = definition; return True
WriteStep(t) ==
    LET th == threads[t] IN
    /\ th.pc = "write"
    /\ threads' = [threads EXCEPT ![t] = [@ EXCEPT !.pc = "done", !.ok = TRUE]]
    /\ registered_actions' =
           IF th.op = "register_action"
           THEN (th.id :> th.func) @@ registered_actions
           ELSE registered_actions
    /\ action_chains' =
           IF th.op = "define_chain"
           THEN dict_assign(action_chains, chain_index(action_chains, th.id),
                            [chain_id |-> th.id, conditions |-> th.conditions,
                             actions |-> th.actions, created_at |-> clock])
           ELSE action_chains
    /\ alert_rules' =
           IF th.op = "add_custom_rule"
           THEN dict_assign(alert_rules, rule_index(alert_rules, th.id),
                            [id |-> th.id, condition |-> th.func,
                             message |-> "Custom alert", level |-> "medium"])
           ELSE alert_rules
    /\ UNCHANGED <<alerts_history, clock, lastCall, cond_in, pipeline, memory>>

NextConc ==
    \/ \E t \in Threads, call \in ConcurrentCalls : Call(t, call)
    \/ \E t \in Threads : CheckStep(t)
    \/ \E t \in Threads : ValidateStep(t)
    \/ \E t \in Threads : WriteStep(t)

SpecConc == InitConc /\ [][NextConc]_vars

\* The definition the registry stores under the id of the thread's call is the
\* one the thread offered.
HoldsDefinitionOf(th) ==
    CASE th.op = "register_action" ->
             /\ th.id \in DOMAIN registered_actions
             /\ registered_actions[th.id] = th.func
      [] th.op = "define_chain" ->
             /\ IsRegisteredChain(action_chains, th.id)
             /\ StoredChain(action_chains, th.id).conditions = th.conditions
      [] th.op = "add_custom_rule" ->
             /\ rule_index(alert_rules, th.id) # 0
             /\ alert_rules[rule_index(alert_rules, th.id)].condition = th.func

\* C7: of the registrations of one id that concurrent callers have completed,
\* exactly one returned success, and the registry holds the definition of
\* the one that succeeded.
C7_FirstRegistrationWins ==
    \A t \in Threads :
       threads[t].pc = "done"
       => /\ Cardinality({ u \in Threads : /\ threads[u].pc = "done"
                                           /\ threads[u].op = threads[t].op
                                           /\ threads[u].id = threads[t].id
                                           /\ threads[u].ok }) = 1
          /\ threads[t].ok => HoldsDefinitionOf(threads[t])

(***************************************************************************)
(* JSONAgent: mapping of a structured record to the order schema           *)
(***************************************************************************)
\* A key the record does not have.
Absent == [t |-> "absent", s |-> "", n |-> 0, e |-> {}]

\* key in json_data
InDict(json_data, key) == key \in DOMAIN json_data /\ json_data[key].t # "absent"

\* _convert_to_number: a number as it is; a str with everything but digits
\* and dots removed, 0.0 when what is left is not a number; 0.0 for any
\* other value.
convert_to_number(value) ==
    CASE IsNumber(value) -> Num(value.n)
      [] value.t = "str" ->
             (CASE value.s = "1,500" -> Num(1500)
                [] value.s = "-100" -> Num(100)
                [] value.s = "abc" -> Num(0))
      [] OTHER -> Num(0)

\* str(value).upper() for the currency strings of the model.
upper(value) ==
    CASE value.s = "usd" -> "USD"
      [] value.s = "USD" -> "USD"
      [] value.s = "xyz" -> "XYZ"

valid_currencies == { "USD", "EUR", "GBP", "JPY", "CAD", "AUD" }

\* _format_date for the date strings of the model.
format_date(value) ==
    CASE value.s = "01/02/2024" -> "2024-01-02"
      [] value.s = "2024-01-02" -> "2024-01-02"
      [] value.s = "2024-01-15" -> "2024-01-15"

\* The first of the keys, in order, that the record has; "" when it has none.
RECURSIVE first_key(_, _)
first_key(json_data, keys) ==
    IF keys = << >> THEN ""
    ELSE IF InDict(json_data, Head(keys)) THEN Head(keys)
    ELSE first_key(json_data, Tail(keys))

\* The anomaly texts of a substituted and of a missing field.
field_mapping(used, wanted) ==
    "Field mapping: '" \o used \o "' used instead of '" \o wanted \o "'"

missing_field(wanted) == "Missing required field: " \o wanted

\* The anomalies of a field read from key: none for the field's own name,
\* the substitution for another key, the missing field for no key.
alias_anomalies(key, wanted) ==
    IF key = "" THEN << missing_field(wanted) >>
    ELSE IF key = wanted THEN << >>
    ELSE << field_mapping(key, wanted) >>

\* Lines 80-90.
map_order_id(json_data) ==
    LET key == first_key(json_data, << "order_id", "id", "order_number" >>) IN
    [value |-> IF key = "" THEN NoneV ELSE Str(PyStr(json_data[key])),
     anomalies |-> alias_anomalies(key, "order_id")]

\* Lines 92-102.
map_customer(json_data) ==
    LET key == first_key(json_data, << "customer", "customer_name", "name" >>) IN
    [value |-> IF key = "" THEN NoneV ELSE Str(PyStr(json_data[key])),
     anomalies |-> alias_anomalies(key, "customer")]

\* A list of one element that is no dict with sku and qty: a number, None
\* or the string 'abc'.
ItemList(kind) == [t |-> "list", s |-> kind, n |-> 1, e |-> {}]

\* Lines 104-143: the first of the keys whose value is a list.  value is the
\* number of mapped items.  An element that is a dict with sku and qty maps
\* without an anomaly; '"sku" in item' raises TypeError for a number and for
\* None (line 116) and is false for a string, which is mapped to an item
\* without sku and quantity.
map_items(json_data) ==
    LET list_keys == SelectSeq(<< "items", "products", "line_items", "order_items" >>,
                               LAMBDA k : InDict(json_data, k) /\ json_data[k].t = "list")
        items_found == list_keys # << >>
        kind == IF items_found THEN json_data[Head(list_keys)].s ELSE ""
    IN  [value |-> IF items_found THEN json_data[Head(list_keys)].n ELSE 0,
         items_found |-> items_found,
         raises |-> kind \in { "number", "null" },
         anomalies |-> IF items_found
                       THEN alias_anomalies(Head(list_keys), "items")
                            \o (IF kind = "string"
                                THEN << "Missing SKU in item: abc",
                                        "Missing quantity in item: abc" >>
                                ELSE << >>)
                       ELSE << missing_field("items") >>]

\* Lines 145-155 with a missing total mapped to zero.
map_total_amount_zero(json_data) ==
    LET key == first_key(json_data, << "total_amount", "amount", "total" >>) IN
    [value |-> IF key = "" THEN Num(0) ELSE convert_to_number(json_data[key]),
     anomalies |-> alias_anomalies(key, "total_amount")]

\* Lines 145-155.
map_total_amount(json_data) ==
    LET key == first_key(json_data, << "total_amount", "amount", "total" >>) IN
    [value |-> IF key = "" THEN NoneV ELSE convert_to_number(json_data[key]),
     anomalies |-> alias_anomalies(key, "total_amount")]

\* Lines 157-171 with the currency kept as it is written.
map_currency_as_given(json_data) ==
    LET key == first_key(json_data, << "currency", "currency_code" >>)
        currency == IF key = "" THEN "USD" ELSE json_data[key].s
    IN  [value |-> Str(currency),
         anomalies |-> alias_anomalies(key, "currency")
                       \o (IF currency \in valid_currencies THEN << >>
                           ELSE << "Unknown currency: " \o currency >>)]

\* Lines 157-171.
map_currency(json_data) ==
    LET key == first_key(json_data, << "currency", "currency_code" >>)
        currency == IF key = "" THEN "USD" ELSE upper(json_data[key])
    IN  [value |-> Str(currency),
         anomalies |-> alias_anomalies(key, "currency")
                       \o (IF currency \in valid_currencies THEN << >>
                           ELSE << "Unknown currency: " \o currency >>)]

\* A dict with a date key, as the value of the delivery key.
DeliveryDict(date) == [t |-> "map", s |-> date, n |-> 1, e |-> {}]

\* Lines 173-183: delivery_date, date, or the date of a delivery dict.
map_delivery_date(json_data) ==
    LET top == first_key(json_data, << "delivery_date", "date" >>)
        nested == /\ InDict(json_data, "delivery")
                  /\ json_data["delivery"].t = "map"
                  /\ json_data["delivery"].n = 1
        key == IF top # "" THEN top ELSE IF nested THEN "delivery.date" ELSE ""
    IN  [value |-> IF key = "" THEN NoneV
                   ELSE IF key = "delivery.date"
                   THEN Str(format_date(Str(json_data["delivery"].s)))
                   ELSE Str(format_date(json_data[key])),
         anomalies |-> alias_anomalies(key, "delivery_date")]

\* map_to_flowbit_schema: the mapped record and the anomalies, in the order
\* the method appends them.  The type check of lines 185-191 is applied to
\* the float _convert_to_number has returned, so it never adds an anomaly.
map_to_flowbit_schema(json_data) ==
    LET order_id == map_order_id(json_data)
        customer == map_customer(json_data)
        items == map_items(json_data)
        total_amount == map_total_amount(json_data)
        currency == map_currency(json_data)
        delivery_date == map_delivery_date(json_data)
    IN  [outcome |-> IF items.raises THEN "raised" ELSE "returned",
         flowbit_data |->
            [order_id |-> order_id.value, customer |-> customer.value,
             items |-> items.value, total_amount |-> total_amount.value,
             currency |-> currency.value, delivery_date |-> delivery_date.value],
         anomalies |->
            order_id.anomalies \o customer.anomalies \o items.anomalies
            \o total_amount.anomalies \o currency.anomalies \o delivery_date.anomalies
            \o (IF total_amount.value.t # "none" /\ total_amount.value.n < 0
                THEN << "Suspicious value: negative total_amount" >> ELSE << >>)
            \o (IF items.items_found /\ items.value = 0
                THEN << "Suspicious value: empty items array" >> ELSE << >>)]

(***************************************************************************)
(* ClassifierAgent on a structured record                                  *)
(***************************************************************************)
Intents == << "Invoice", "RFQ", "Complaint", "Regulation", "Fraud Risk" >>

\* intent_schemas[intent]["json_fields"]
json_fields(intent) ==
    CASE intent = "Invoice" ->
             { "invoice_number", "amount", "total", "payment", "due_date" }
      [] intent = "RFQ" -> { "quote_number", "request_id", "estimate" }
      [] intent = "Complaint" -> { "complaint_id", "issue", "problem" }
      [] intent = "Regulation" -> { "regulation_id", "compliance", "policy_number" }
      [] intent = "Fraud Risk" ->
             { "risk_score", "fraud_indicators", "suspicious_activity" }

\* field in key, over the schema fields and the keys of the model's records.
FieldInKey(field, key) ==
    <<field, key>> \in { <<"amount", "total_amount">>, <<"total", "total_amount">>,
                         <<"amount", "amount">>, <<"total", "total">> }

\* The score _determine_intent gives an intent for a dict.  No keyword of
\* any schema occurs in the keys and values of the model's records, so the
\* score is two for each schema field that occurs in a key.
intent_score(intent, json_data) ==
    2 * Cardinality({ f \in json_fields(intent) :
                         \E k \in DOMAIN json_data :
                            InDict(json_data, k) /\ FieldInKey(f, k) })

\* _determine_intent for a dict, format JSON.
determine_intent(json_data) ==
    LET score(i) == intent_score(Intents[i], json_data)
        max_score == CHOOSE m \in { score(i) : i \in 1..Len(Intents) } :
                        \A i \in 1..Len(Intents) : score(i) <= m
        max_intents == { Intents[i] : i \in { j \in 1..Len(Intents) : score(j) = max_score } }
    IN  IF max_score > 0
        THEN IF Cardinality(max_intents) > 1 /\ "Fraud Risk" \in max_intents
             THEN "Fraud Risk"
             ELSE IF Cardinality(max_intents) > 1 /\ "Regulation" \in max_intents
             THEN "Regulation"
             ELSE IF Cardinality(max_intents) > 1 /\ "Invoice" \in max_intents
             THEN "Invoice"
             ELSE Intents[CHOOSE i \in 1..Len(Intents) :
                             /\ score(i) = max_score
                             /\ \A j \in 1..(i - 1) : score(j) < max_score]
        ELSE "General"

\* classify_format_intent for a dict: format JSON, intent General shown as Other.
classify_format_intent(json_data) ==
    LET raw_intent == determine_intent(json_data) IN
    [format |-> "JSON",
     intent |-> IF raw_intent = "General" THEN "Other" ELSE raw_intent]

(***************************************************************************)
(* The /process pipeline on a structured record                            *)
(***************************************************************************)
\* The chains endpoints.py defines when it is loaded.
DefaultChains ==
    << [chain_id |-> "urgent_email_chain", conditions |-> UrgentEmailConditions,
        actions |-> << "email_notification", "flag_for_review" >>, created_at |-> 0],
       [chain_id |-> "high_value_order_chain", conditions |-> HighValueConditions,
        actions |-> << "add_to_crm", "email_notification" >>, created_at |-> 0],
       [chain_id |-> "regulation_document_chain", conditions |-> RegulationConditions,
        actions |-> << "compliance_report", "flag_for_review" >>, created_at |-> 0] >>

\* The records sent to /process: customer always given, the other keys given
\* or not.
JsonInputs ==
    { [order_id |-> o, customer |-> Str("Acme"), items |-> i, total_amount |-> ta,
       total |-> t, currency |-> c, delivery_date |-> d] :
          o \in { Absent, Str("1") },
          i \in { Absent, ListV(0, {}), ListV(1, {}) },
          ta \in { Absent, Num(1500), Num(500), Str("1,500"), NoneV },
          t \in { Absent, Str("abc") },
          c \in { Absent, Str("usd") },
          d \in { Absent, Str("01/02/2024") } }

\* process_any for content that parses to a dict: classification, the JSON
\* agent's record in route_to_agent's envelope, the alerts, the chains.  An
\* exception that leaves a step is turned into HTTP 500.
process_any(json_data, rules, chains, actions_reg, now) ==
    LET classification == classify_format_intent(json_data)
        mapped == map_to_flowbit_schema(json_data)
        result == JsonEnvelope(classification.intent, mapped.flowbit_data.total_amount,
                               mapped.anomalies)
        alerts == check_alerts(rules, result, now)
        action_results == process(chains, actions_reg, result, now)
    IN  [op |-> "process_any", input |-> json_data,
         outcome |-> IF action_results.outcome = "raised" THEN "http_500" ELSE "returned",
         format |-> classification.format, intent |-> classification.intent,
         flowbit_data |-> mapped.flowbit_data, anomalies |-> mapped.anomalies,
         alerts |-> alerts.alerts,
         actions |-> IF action_results.outcome = "raised" THEN << >>
                     ELSE action_results.results]

\* The state once endpoints.py has been loaded (lines 42-70): the default
\* actions, the three default chains, the four built-in rules.  The
\* ClassifierAgent is taken as built: its constructor's Fraud Risk example
\* (classifier_agent.py line 81) is read with true as Python's True.
InitPipeline ==
    /\ registered_actions = DefaultActions
    /\ action_chains = DefaultChains
    /\ alert_rules = BuiltinRules
    /\ alerts_history = << >>
    /\ clock = 0
    /\ lastCall = NoCall
    /\ threads = << >>
    /\ cond_in = NoInput
    /\ memory = << >>
    /\ pipeline = NoRequest

ProcessAny(json_data) ==
    LET r == process_any(json_data, alert_rules, action_chains, registered_actions, clock) IN
    /\ Len(alerts_history) < MaxHistory
    /\ pipeline' = r
    /\ alerts_history' = alerts_history \o r.alerts
    /\ UNCHANGED <<registered_actions, action_chains, alert_rules, clock, lastCall,
                   threads, cond_in, memory>>

NextPipeline == \E j \in JsonInputs : ProcessAny(j)

SpecPipeline == InitPipeline /\ [][NextPipeline]_vars

\* The record has none of the keys the total is read from.
LacksTotal(json_data) ==
    first_key(json_data, << "total_amount", "amount", "total" >>) = ""

\* C10: a /process request whose record has no total completes: the missing
\* field is among the anomalies, the normalized total is null, and the
\* response is the envelope, not an error.
C10_MissingTotalCompletes ==
    (pipeline.op = "process_any" /\ LacksTotal(pipeline.input))
    => /\ pipeline.flowbit_data.total_amount = NoneV
       /\ \E i \in 1..Len(pipeline.anomalies) :
             pipeline.anomalies[i] = "Missing required field: total_amount"
       /\ pipeline.outcome = "returned"

(***************************************************************************)
(* The router's envelope of a structured record, given to process          *)
(***************************************************************************)
\* route_to_agent for a dict: the JSON agent's record under processed_data,
\* with format and conversation_id; the envelope has no intent key (that one
\* is set by process_any).
route_to_agent(json_data) ==
    LET mapped == map_to_flowbit_schema(json_data)
        env == JsonEnvelope("", mapped.flowbit_data.total_amount, mapped.anomalies)
    IN  [p \in (DOMAIN env) \ { <<"intent">> } |-> env[p]]

\* The order of the end-to-end scenario, with the given total.
ScenarioOrder(total) ==
    [order_id |-> Str("1"), customer |-> Str("Acme"), items |-> ListV(1, {}),
     total_amount |-> total, total |-> Absent, currency |-> Str("USD"),
     delivery_date |-> Str("2024-01-15")]

ScenarioTotals == { Num(1500), Num(500), Num(1000), Str("1,500"), Str("abc"), Absent }

\* format eq JSON and total_amount gt 1000, the total named by its bare key.
BareTotalConditions ==
    << Cond("format", "eq", Str("JSON")), Cond("total_amount", "gt", Num(1000)) >>

ScenarioConditionLists == { BareTotalConditions, HighValueConditions }

ScenarioChainIds == { "bare_total_chain", "nested_total_chain" }

InitScenario ==
    /\ registered_actions = DefaultActions
    /\ action_chains = << >>
    /\ alert_rules = BuiltinRules
    /\ alerts_history = << >>
    /\ clock = 0
    /\ lastCall = NoCall
    /\ threads = << >>
    /\ cond_in = NoInput
    /\ memory = << >>
    /\ pipeline = NoRequest

DefineScenarioChain(chain_id, conditions) ==
    LET r == define_chain(action_chains, registered_actions, chain_id,
                          conditions, << "add_to_crm" >>, clock) IN
    /\ action_chains' = r.action_chains
    /\ lastCall' = [NoCall EXCEPT !.op = "define_chain", !.id = chain_id,
                                  !.conditions = conditions,
                                  !.actions = << "add_to_crm" >>, !.ok = r.ok]
    /\ UNCHANGED <<registered_actions, alert_rules, alerts_history, clock, threads,
                   cond_in, pipeline, memory>>

\* route_to_agent(order) and then process(envelope).
RouteAndProcess(json_data) ==
    LET mapped == map_to_flowbit_schema(json_data)
        result == route_to_agent(json_data)
        r == process(action_chains, registered_actions, result, clock)
    IN  /\ pipeline' = [NoRequest EXCEPT !.op = "route_to_agent", !.input = json_data,
                                         !.outcome = "returned", !.format = "JSON",
                                         !.flowbit_data = mapped.flowbit_data,
                                         !.anomalies = mapped.anomalies]
        /\ lastCall' = [NoCall EXCEPT !.op = "process", !.data = result,
                                      !.outcome = r.outcome, !.results = r.results,
                                      !.calls = r.calls]
        /\ UNCHANGED <<registered_actions, action_chains, alert_rules, alerts_history,
                       clock, threads, cond_in, memory>>

NextScenario ==
    \/ \E c \in ScenarioChainIds, cs \in ScenarioConditionLists :
          DefineScenarioChain(c, cs)
    \/ \E t \in ScenarioTotals : RouteAndProcess(ScenarioOrder(t))

SpecScenario == InitScenario /\ [][NextScenario]_vars

\* process has just been given the router's envelope of the scenario's order
\* with this total.
ScenarioProcessed(total) ==
    /\ pipeline.op = "route_to_agent"
    /\ pipeline.input = ScenarioOrder(total)
    /\ lastCall.op = "process"

\* The ids of the registered chains with these conditions.
ChainsWith(conditions) ==
    { action_chains[i].chain_id :
         i \in { j \in 1..Len(action_chains) : action_chains[j].conditions = conditions } }

\* C11 as stated: a chain whose second condition names the bare key
\* total_amount is triggered on the scenario's envelope with total 1500 and
\* is not triggered with total 500.
C11_BareTotalChainFires ==
    /\ ScenarioProcessed(Num(1500))
       => \A c \in ChainsWith(BareTotalConditions) : InResults(lastCall.results, c)
    /\ ScenarioProcessed(Num(500))
       => \A c \in ChainsWith(BareTotalConditions) : ~InResults(lastCall.results, c)

\* C11 amended: process returns on the scenario's envelope with total 1500
\* and with total 500; a chain whose second condition names the total by its
\* path processed_data.flowbit_data.total_amount is triggered with 1500 and
\* not with 500, and a chain that names the bare key total_amount is
\* triggered with neither.
C11_NestedTotalChainFires ==
    \A t \in { Num(1500), Num(500) } :
       ScenarioProcessed(t)
       => /\ lastCall.outcome = "returned"
          /\ \A c \in ChainsWith(HighValueConditions) :
                InResults(lastCall.results, c) <=> t = Num(1500)
          /\ \A c \in ChainsWith(BareTotalConditions) : ~InResults(lastCall.results, c)

\* C11 witness: both chains are registered and process, given the envelope
\* with total 1500, triggered the one and not the other.
C11_Witness ==
    /\ ScenarioProcessed(Num(1500))
    /\ ChainsWith(HighValueConditions) # {}
    /\ ChainsWith(BareTotalConditions) # {}
    /\ Len(lastCall.results) = 1
    /\ Len(lastCall.results[1].actions) = 1
    /\ lastCall.results[1].actions[1].success


(***************************************************************************)
(* ClassifierAgent.classify on any input                                   *)
(***************************************************************************)
\* Sizes of the inputs: the words of a text, the keys of a dict.
MaxWords == 2
MaxFields == 2

\* The patterns _determine_format looks for in a string.
Markers == { "From:", "To:", "Subject:", "@" }

\* The words a text of the model is made of, the keys and the values of its
\* dicts.
TextWords == { "invoice", "fraud", "compliance", "quote", "issue", "hello" }
ClassifierKeys == { "risk_score", "compliance", "suspicious_activity", "amount", "note" }
ClassifierValues == { Num(1), Num(0), Bool(TRUE), Str("fraud"), Str("invoice"), Str("hello") }

WordSets == { W \in SUBSET TextWords : Cardinality(W) <= MaxWords }
EmptyFields == [k \in {} |-> NoneV]
Dicts == UNION { [S -> ClassifierValues] :
                    S \in { T \in SUBSET ClassifierKeys : Cardinality(T) <= MaxFields } }

\* An input of classify.  kind is its Python type; magic: the bytes start
\* with %PDF; loads: what json.loads makes of the string; markers: the
\* patterns the string contains; words: the words of the text (of str(data)
\* for a value that is no bytes, dict or str); fields: the dict, or the dict
\* the string parses to; fault: the dict has a key that is no str ("key") or
\* a value json.dumps cannot serialize ("value").
ClassifierInput(kind, magic, loads, markers, words, fields, fault) ==
    [kind |-> kind, magic |-> magic, loads |-> loads, markers |-> markers,
     words |-> words, fields |-> fields, fault |-> fault]

ClassifyInputs ==
    { ClassifierInput("bytes", m, "fails", {}, w, EmptyFields, "none") :
          m \in BOOLEAN, w \in WordSets }
    \cup { ClassifierInput("dict", FALSE, "dict", {}, {}, d, "none") : d \in Dicts }
    \cup { ClassifierInput("dict", FALSE, "dict", {}, {}, d, f) :
              d \in { x \in Dicts : Cardinality(DOMAIN x) <= 1 }, f \in { "key", "value" } }
    \cup { ClassifierInput("str", FALSE, "fails", m, w, EmptyFields, "none") :
              m \in SUBSET Markers, w \in WordSets }
    \cup { ClassifierInput("str", FALSE, "scalar", m, w, EmptyFields, "none") :
              m \in SUBSET Markers, w \in WordSets }
    \cup { ClassifierInput("str", FALSE, "dict", {}, {}, d, "none") : d \in Dicts }
    \cup { ClassifierInput("other", FALSE, "fails", {}, w, EmptyFields, "none") :
              w \in WordSets }

\* _determine_format with the JSON test after the marker test.
determine_format_markers_first(data) ==
    IF data.kind = "bytes" THEN (IF data.magic THEN "PDF" ELSE "Unknown")
    ELSE IF data.kind = "dict" THEN "JSON"
    ELSE IF data.kind = "str" /\ data.markers # {} THEN "Email"
    ELSE IF data.kind = "str" /\ data.loads # "fails" THEN "JSON"
    ELSE "Unknown"

\* _determine_format
determine_format(data) ==
    IF data.kind = "bytes" THEN (IF data.magic THEN "PDF" ELSE "Unknown")
    ELSE IF data.kind = "dict" THEN "JSON"
    ELSE IF data.kind = "str" /\ data.loads # "fails" THEN "JSON"
    ELSE IF data.kind = "str" /\ data.markers \cap { "From:", "To:", "Subject:", "@" } # {}
    THEN "Email"
    ELSE "Unknown"

\* intent_schemas[intent]["keywords"]
keywords(intent) ==
    CASE intent = "Invoice" ->
             { "invoice", "payment", "bill", "receipt", "transaction", "paid", "amount due" }
      [] intent = "RFQ" ->
             { "quote", "rfq", "request for quote", "quotation", "estimate", "pricing" }
      [] intent = "Complaint" ->
             { "complaint", "issue", "problem", "defect", "unsatisfied", "disappointed",
               "refund" }
      [] intent = "Regulation" ->
             { "regulation", "compliance", "law", "legal", "requirement", "guideline",
               "policy" }
      [] intent = "Fraud Risk" ->
             { "suspicious", "fraud", "unusual", "unauthorized", "anomaly", "scam", "fake" }

\* keyword in word, over the keywords and the words, keys and values of the
\* model.
KeywordIn(keyword, word) ==
    keyword = word \/ <<keyword, word>> \in { <<"suspicious", "suspicious_activity">> }

\* field.lower() in key.lower(), over the schema fields and the keys of the
\* model's dicts.
FieldInDictKey(field, key) == field = key

\* text_data with the bytes of a file decoded to text.
text_data_decoded(data) ==
    IF data.loads = "dict"
    THEN DOMAIN data.fields
         \cup { data.fields[k].s : k \in { x \in DOMAIN data.fields : data.fields[x].t = "str" } }
    ELSE data.words

\* The words of text_data: nothing for bytes; the keys and the str values of
\* a dict or of the string of one (json.dumps writes numbers and booleans
\* as words that hold no keyword); the words of the text otherwise.
text_data(data) ==
    IF data.kind = "bytes" THEN {}
    ELSE IF data.loads = "dict"
    THEN DOMAIN data.fields
         \cup { data.fields[k].s : k \in { x \in DOMAIN data.fields : data.fields[x].t = "str" } }
    ELSE data.words

\* bool(value)
Truthy(value) ==
    CASE value.t = "str" -> value.s # ""
      [] IsNumber(value) -> value.n # 0
      [] OTHER -> FALSE

\* The number of keywords of the intent that text_data contains.
keyword_hits(intent, data) ==
    Cardinality({ k \in keywords(intent) : \E w \in text_data(data) : KeywordIn(k, w) })

\* The field matching of lines 235-239 runs when the format is JSON and
\* json_data is truthy; only a dict has flattened keys.
flat_json(data, format_type) ==
    IF format_type = "JSON" /\ data.loads = "dict" THEN data.fields ELSE EmptyFields

field_hits(intent, data, format_type) ==
    Cardinality({ f \in json_fields(intent) :
                     \E k \in DOMAIN flat_json(data, format_type) : FieldInDictKey(f, k) })

\* Keys with "risk" in them and a number above 0.7.
risk_hits(data, format_type) ==
    LET flat == flat_json(data, format_type) IN
    Cardinality({ k \in DOMAIN flat :
                     /\ k \in { "risk_score" }
                     /\ IsNumber(flat[k]) /\ 10 * flat[k].n > 7 })

\* Keys with "suspicious", "fraud" or "anomaly" in them and a truthy value.
indicator_hits(data, format_type) ==
    LET flat == flat_json(data, format_type) IN
    Cardinality({ k \in DOMAIN flat :
                     k \in { "suspicious_activity" } /\ Truthy(flat[k]) })

\* intent_scores of _determine_intent (lines 224-263).
intent_scores(data, format_type) ==
    [intent \in { Intents[i] : i \in 1..Len(Intents) } |->
        keyword_hits(intent, data)
        + 2 * field_hits(intent, data, format_type)
        + (IF format_type = "PDF" /\ intent = "Regulation" THEN 2 ELSE 0)
        + (IF intent = "Fraud Risk"
           THEN 3 * risk_hits(data, format_type) + 3 * indicator_hits(data, format_type)
                + 2 * keyword_hits(intent, data)
           ELSE 0)]

\* The intents that share the highest score.
max_intents(scores) ==
    { i \in DOMAIN scores : \A j \in DOMAIN scores : scores[j] <= scores[i] }

\* max(intent_scores.items(), key=...): the first intent, in the order of
\* intent_schemas, with the highest score.
first_max(scores) ==
    Intents[CHOOSE i \in 1..Len(Intents) :
               /\ Intents[i] \in max_intents(scores)
               /\ \A j \in 1..(i - 1) : Intents[j] \notin max_intents(scores)]

\* The selection without the priority list.
select_intent_unprioritised(scores, format_type) ==
    IF \E i \in DOMAIN scores : scores[i] > 0 THEN first_max(scores)
    ELSE IF format_type = "PDF" THEN "Regulation" ELSE "General"

\* Lines 265-282: the highest score wins, a tie goes by the priority list,
\* no score at all gives the default of the format.
select_intent(scores, format_type) ==
    LET tied == max_intents(scores) IN
    IF \E i \in DOMAIN scores : scores[i] > 0
    THEN IF Cardinality(tied) > 1 /\ "Fraud Risk" \in tied THEN "Fraud Risk"
         ELSE IF Cardinality(tied) > 1 /\ "Regulation" \in tied THEN "Regulation"
         ELSE IF Cardinality(tied) > 1 /\ "Invoice" \in tied THEN "Invoice"
         ELSE first_max(scores)
    ELSE IF format_type = "PDF" THEN "Regulation" ELSE "General"

\* _determine_intent raises where json.dumps meets a value it cannot
\* serialize (line 207) and where a key that is no str is lower-cased
\* (line 238).
intent_raises(data, format_type) ==
    format_type = "JSON" /\ data.kind = "dict" /\ data.fault # "none"

\* classify, and the format and intent classify_format_intent shows for them.
classify(data) ==
    LET format_type == determine_format(data)
        scores == intent_scores(data, format_type)
        intent == select_intent(scores, format_type)
    IN  IF intent_raises(data, format_type)
        THEN [op |-> "classify", input |-> data, outcome |-> "raised",
              format |-> format_type, intent |-> "", scores |-> scores,
              shown_format |-> "", shown_intent |-> ""]
        ELSE [op |-> "classify", input |-> data, outcome |-> "returned",
              format |-> format_type, intent |-> intent, scores |-> scores,
              shown_format |-> IF format_type = "Unknown" THEN "Other" ELSE format_type,
              shown_intent |-> IF intent = "General" THEN "Other" ELSE intent]

\* The input whose classification is asked for.
ClassifyRequest(data) == [op |-> "classify_request", input |-> data]

InitClassify ==
    /\ registered_actions = DefaultActions
    /\ action_chains = << >>
    /\ alert_rules = BuiltinRules
    /\ alerts_history = << >>
    /\ clock = 0
    /\ lastCall = NoCall
    /\ threads = << >>
    /\ cond_in = NoInput
    /\ memory = << >>
    /\ \E data \in ClassifyInputs : pipeline = ClassifyRequest(data)

Classify ==
    /\ pipeline.op = "classify_request"
    /\ pipeline' = classify(pipeline.input)
    /\ UNCHANGED <<registered_actions, action_chains, alert_rules, alerts_history,
                   clock, lastCall, threads, cond_in, memory>>

NextClassify == Classify

SpecClassify == InitClassify /\ [][NextClassify]_vars


\* classify has answered the request.
Classified == pipeline.op = "classify"

\* None of the format rules applies to the input: it is no bytes with the
\* magic prefix, no dict, no string that parses as JSON or holds a marker.
MatchesNoFormatRule(data) ==
    /\ ~(data.kind = "bytes" /\ data.magic)
    /\ data.kind # "dict"
    /\ ~(data.kind = "str" /\ (data.loads # "fails" \/ data.markers # {}))

\* C12: classify never raises, whatever the input is, and an input that
\* matches no format rule is given the format Unknown and the intent Other,
\* whatever keywords it contains.
C12_NeverRaisesUnknownIsOther ==
    Classified
    => /\ pipeline.outcome = "returned"
       /\ MatchesNoFormatRule(pipeline.input)
          => pipeline.format = "Unknown" /\ pipeline.shown_intent = "Other"

\* The format the ordered rules give with the given set of markers: bytes
\* with the magic prefix are PDF, a dict is JSON, a string that parses as JSON
\* is JSON, a string with one of the markers is Email, the rest is Unknown.
FormatByRules(data, markers) ==
    CASE data.kind = "bytes" /\ data.magic -> "PDF"
      [] data.kind = "bytes" /\ ~data.magic -> "Unknown"
      [] data.kind = "dict" -> "JSON"
      [] data.kind = "str" /\ data.loads # "fails" -> "JSON"
      [] data.kind = "str" /\ data.loads = "fails" /\ data.markers \cap markers # {} -> "Email"
      [] OTHER -> "Unknown"

TiedIntents ==
    IF /\ Classified
       /\ pipeline.outcome = "returned"
       /\ \E i \in DOMAIN pipeline.scores : pipeline.scores[i] > 0
       /\ Cardinality(max_intents(pipeline.scores)) > 1
    THEN max_intents(pipeline.scores)
    ELSE {}

\* C14: when several intents share the highest score and it is not zero, the
\* intent returned is the first of Fraud Risk, Regulation, Invoice among
\* them; Fraud Risk tied with Regulation gives Fraud Risk.
C14_TieGoesByPriority ==
    /\ "Fraud Risk" \in TiedIntents => pipeline.intent = "Fraud Risk"
    /\ ("Fraud Risk" \notin TiedIntents /\ "Regulation" \in TiedIntents)
       => pipeline.intent = "Regulation"
    /\ ({ "Fraud Risk", "Regulation" } \cap TiedIntents = {} /\ "Invoice" \in TiedIntents)
       => pipeline.intent = "Invoice"

\* Fraud Risk and Regulation share the highest score.
C14_Witness ==
    /\ { "Fraud Risk", "Regulation" } \subseteq TiedIntents
    /\ pipeline.intent = "Fraud Risk"

\* C15: a Fraud Risk keyword in the text adds 2 to the Fraud Risk score in
\* place of the 1 a keyword adds to any other intent, a schema field in a
\* key adds 2, a risk field above the threshold or a truthy indicator field
\* adds 3 to the Fraud Risk score.
C15_FraudKeywordAddsTwo ==
    (Classified /\ pipeline.outcome = "returned")
    => LET data == pipeline.input
           format_type == pipeline.format
       IN  \A intent \in DOMAIN pipeline.scores :
              pipeline.scores[intent] =
                 (IF intent = "Fraud Risk" THEN 2 ELSE 1) * keyword_hits(intent, data)
                 + 2 * field_hits(intent, data, format_type)
                 + (IF format_type = "PDF" /\ intent = "Regulation" THEN 2 ELSE 0)
                 + (IF intent = "Fraud Risk"
                    THEN 3 * risk_hits(data, format_type)
                         + 3 * indicator_hits(data, format_type)
                    ELSE 0)


(***************************************************************************)
(* JSONAgent.map_to_flowbit_schema on records with aliased, ill-typed and  *)
(* missing fields                                                          *)
(***************************************************************************)
\* The records given to the method: each key present or not, the values
\* well-typed or not.
JsonRecords ==
    { [order_id |-> o, id |-> i, customer |-> Str("Acme"),
       items |-> it, products |-> p, total_amount |-> ta, amount |-> a, total |-> t,
       currency |-> c, currency_code |-> cc, delivery_date |-> dd, date |-> d,
       delivery |-> dl] :
          o \in { Absent, Str("1") }, i \in { Absent, Str("2") },
          it \in { Absent, Str("none"), ListV(1, {}), ItemList("number"),
                   ItemList("null"), ItemList("string") }, p \in { Absent, ListV(0, {}) },
          ta \in { Absent, Num(1500), Str("abc"), Str("-100"), NoneV },
          a \in { Absent, Num(0 - 5) }, t \in { Absent, Str("1,500") },
          c \in { Absent, Str("xyz"), Str("usd") }, cc \in { Absent, Str("usd") },
          dd \in { Absent, Str("2024-01-02") }, d \in { Absent, Str("01/02/2024") },
          dl \in { Absent, DeliveryDict("01/02/2024") } }

MapRequest(json_data) == [op |-> "map_request", input |-> json_data]

InitJson ==
    /\ registered_actions = << >>
    /\ action_chains = << >>
    /\ alert_rules = BuiltinRules
    /\ alerts_history = << >>
    /\ clock = 0
    /\ lastCall = NoCall
    /\ threads = << >>
    /\ cond_in = NoInput
    /\ memory = << >>
    /\ \E json_data \in JsonRecords : pipeline = MapRequest(json_data)

MapToFlowbitSchema ==
    LET mapped == map_to_flowbit_schema(pipeline.input) IN
    /\ pipeline.op = "map_request"
    /\ pipeline' = IF mapped.outcome = "raised"
                    THEN [op |-> "map_to_flowbit_schema", input |-> pipeline.input,
                          outcome |-> "raised"]
                    ELSE [op |-> "map_to_flowbit_schema", input |-> pipeline.input,
                          outcome |-> "returned", flowbit_data |-> mapped.flowbit_data,
                          anomalies |-> mapped.anomalies]
    /\ UNCHANGED <<registered_actions, action_chains, alert_rules, alerts_history,
                   clock, lastCall, threads, cond_in, memory>>

NextJson == MapToFlowbitSchema

SpecJson == InitJson /\ [][NextJson]_vars

\* The method has returned for the record.
Mapped == pipeline.op = "map_to_flowbit_schema" /\ pipeline.outcome = "returned"

\* How often the text occurs in the returned anomalies.
AnomalyCount(text) ==
    Cardinality({ i \in 1..Len(pipeline.anomalies) : pipeline.anomalies[i] = text })

\* C17: for a record with none of the total keys, the anomalies hold
\* 'Missing required field: total_amount' exactly once and the returned
\* total_amount is null.
C17_MissingTotalIsNull ==
    (Mapped /\ LacksTotal(pipeline.input))
    => /\ AnomalyCount("Missing required field: total_amount") = 1
       /\ pipeline.flowbit_data.total_amount = NoneV

\* A record without a total, but with an id and a currency, has been mapped.
C17_Witness ==
    /\ Mapped
    /\ LacksTotal(pipeline.input)
    /\ InDict(pipeline.input, "order_id")
    /\ InDict(pipeline.input, "currency")

\* The currency the record gives: under currency, else under currency_code.
GivenCurrency(json_data) ==
    IF InDict(json_data, "currency") THEN json_data["currency"].s
    ELSE IF InDict(json_data, "currency_code") THEN json_data["currency_code"].s
    ELSE ""

\* C18: a currency given outside USD, EUR, GBP, JPY, CAD, AUD is returned
\* upper-cased with an 'Unknown currency' anomaly; a record without a
\* currency gets USD and a missing-field anomaly for currency.
C18_UnknownAndDefaultCurrency ==
    Mapped
    => /\ GivenCurrency(pipeline.input) = "xyz"
          => /\ pipeline.flowbit_data.currency = Str("XYZ")
             /\ AnomalyCount("Unknown currency: XYZ") = 1
       /\ GivenCurrency(pipeline.input) = ""
          => /\ pipeline.flowbit_data.currency = Str("USD")
             /\ AnomalyCount("Missing required field: currency") = 1
             /\ AnomalyCount("Unknown currency: USD") = 0

\* A record with the currency xyz has been mapped.
C18_Witness ==
    /\ Mapped
    /\ GivenCurrency(pipeline.input) = "xyz"
    /\ pipeline.flowbit_data.currency = Str("XYZ")

\* The canonical fields and their aliases, in the order they are tried; the
\* date of a delivery dict goes by the name delivery.date.
CanonicalFields ==
    { "order_id", "customer", "items", "total_amount", "currency", "delivery_date" }

Aliases(wanted) ==
    CASE wanted = "order_id" -> << "order_id", "id", "order_number" >>
      [] wanted = "customer" -> << "customer", "customer_name", "name" >>
      [] wanted = "items" -> << "items", "products", "line_items", "order_items" >>
      [] wanted = "total_amount" -> << "total_amount", "amount", "total" >>
      [] wanted = "currency" -> << "currency", "currency_code" >>
      [] wanted = "delivery_date" -> << "delivery_date", "date", "delivery.date" >>

\* The alias is a key of the record.
AliasPresent(json_data, alias) ==
    IF alias = "delivery.date"
    THEN InDict(json_data, "delivery") /\ json_data["delivery"].t = "map"
         /\ json_data["delivery"].n = 1
    ELSE InDict(json_data, alias)

\* The first alias of the field that is present; "" when none is.
FirstAlias(json_data, wanted) ==
    LET present == SelectSeq(Aliases(wanted), LAMBDA k : AliasPresent(json_data, k))
    IN  IF present = << >> THEN "" ELSE Head(present)

\* The field-mapping anomalies recorded for the field.
MappingAnomalies(wanted) ==
    { i \in 1..Len(pipeline.anomalies) :
         \E k \in 1..Len(Aliases(wanted)) :
            pipeline.anomalies[i] = field_mapping(Aliases(wanted)[k], wanted) }

\* The value the returned record has for the field shows it was populated.
Populated(wanted) ==
    IF wanted = "items" THEN TRUE
    ELSE pipeline.flowbit_data[wanted] # NoneV

\* C19: for each canonical field the first alias present wins: the field's
\* own name gives no field-mapping anomaly for it, another alias populates
\* the field and gives exactly one field-mapping anomaly, that of the
\* substitution, and no alias gives exactly one missing-field anomaly.
C19_FirstAliasPresentWins ==
    Mapped
    => \A wanted \in CanonicalFields :
          LET alias == FirstAlias(pipeline.input, wanted) IN
          /\ alias = wanted => MappingAnomalies(wanted) = {}
          /\ (alias # "" /\ alias # wanted)
             => /\ Populated(wanted)
                /\ Cardinality(MappingAnomalies(wanted)) = 1
                /\ AnomalyCount(field_mapping(alias, wanted)) = 1
                /\ AnomalyCount(missing_field(wanted)) = 0
          /\ alias = "" => AnomalyCount(missing_field(wanted)) = 1

\* The value the total is read from cannot be made a number: a string
\* without a digit, or a value that is neither a number nor a string.
TotalNotCoercible(json_data) ==
    LET key == first_key(json_data, << "total_amount", "amount", "total" >>) IN
    /\ key # ""
    /\ \/ json_data[key] = Str("abc")
       \/ json_data[key].t \notin { "num", "bool", "str" }

\* C20: a total that cannot be made a number is returned as 0 together with
\* a type-error anomaly for total_amount.
C20_CoercionFailureRecorded ==
    (Mapped /\ TotalNotCoercible(pipeline.input))
    => /\ pipeline.flowbit_data.total_amount = Num(0)
       /\ AnomalyCount("Type error: total_amount is not a valid number") >= 1


\* The value the total is read from is below zero: a negative number, or
\* the string of one.
TotalNegative(json_data) ==
    LET key == first_key(json_data, << "total_amount", "amount", "total" >>) IN
    /\ key # ""
    /\ \/ json_data[key].t = "num" /\ json_data[key].n < 0
       \/ json_data[key] = Str("-100")

\* The list the items are read from is empty.
ItemsEmpty(json_data) ==
    \E k \in 1..4 :
       LET keys == << "items", "products", "line_items", "order_items" >> IN
       /\ InDict(json_data, keys[k]) /\ json_data[keys[k]] = ListV(0, {})
       /\ \A j \in 1..(k - 1) : ~(InDict(json_data, keys[j]) /\ json_data[keys[j]].t = "list")

\* C21: a negative total, given as a number or as the string of one, is
\* returned with 'Suspicious value: negative total_amount', an empty item
\* list with 'Suspicious value: empty items array'; a record is returned in
\* both cases.
C21_SuspiciousValuesFlagged ==
    Mapped
    => /\ TotalNegative(pipeline.input)
          => AnomalyCount("Suspicious value: negative total_amount") >= 1
       /\ ItemsEmpty(pipeline.input)
          => AnomalyCount("Suspicious value: empty items array") >= 1


(***************************************************************************)
(* EmailParserAgent: urgency, tone and issue type of a correspondence      *)
(***************************************************************************)
\* The words a subject or a body of the model is made of.
EmailWords ==
    { "urgent", "today", "soon", "important", "fyi", "refund", "unacceptable",
      "lawyer", "please", "error" }

EmailWordSets == { W \in SUBSET EmailWords : Cardinality(W) <= MaxWords }

\* A correspondence with a From: and a Subject: header, by the words of its
\* subject and of its body.
Emails == { [subject |-> s, body |-> b] : s \in EmailWordSets, b \in EmailWordSets }

\* urgency_indicators[level]
urgency_indicators(level) ==
    CASE level = "High" ->
             { "urgent", "asap", "immediately", "emergency", "critical", "deadline",
               "today", "now", "expedite", "promptly", "high priority" }
      [] level = "Medium" ->
             { "soon", "important", "attention", "priority", "followup", "timely",
               "quick", "next day", "48 hours" }
      [] level = "Low" ->
             { "when possible", "at your convenience", "no rush", "future reference",
               "for your information", "fyi", "sometime", "update", "routine" }

\* tone_indicators, in the order of the dict.
Tones == << "escalation", "threatening", "polite", "neutral" >>

tone_indicators(tone) ==
    CASE tone = "escalation" ->
             { "escalate", "urgent", "immediately", "asap", "emergency", "critical",
               "deadline", "urgent attention", "priority", "expedite", "promptly" }
      [] tone = "threatening" ->
             { "lawyer", "legal action", "sue", "complaint", "demand", "dissatisfied",
               "disappointed", "unacceptable", "compensation", "refund", "consequences" }
      [] tone = "polite" ->
             { "please", "thank you", "appreciate", "grateful", "kindly", "regards",
               "sincerely", "respectfully", "consideration" }
      [] tone = "neutral" ->
             { "inform", "update", "inquiry", "question", "wondering", "information",
               "request", "seeking", "details" }

\* issue_types, in the order of the dict.
IssueTypes ==
    << "Technical Support", "Billing Inquiry", "Feature Request", "Account Management",
       "General Inquiry", "Complaint" >>

issue_types(issue_type) ==
    CASE issue_type = "Technical Support" ->
             { "error", "bug", "issue", "problem", "not working", "broken", "crash",
               "technical", "support", "troubleshoot", "help me" }
      [] issue_type = "Billing Inquiry" ->
             { "invoice", "payment", "bill", "charge", "subscription", "price",
               "billing", "transaction", "refund", "credit", "debit" }
      [] issue_type = "Feature Request" ->
             { "feature", "enhancement", "improvement", "suggest", "add capability",
               "would like to see", "missing functionality", "update with" }
      [] issue_type = "Account Management" ->
             { "account", "login", "password", "access", "user", "profile", "settings",
               "permissions", "security", "verification", "authentication" }
      [] issue_type = "General Inquiry" ->
             { "question", "inquiry", "information", "details", "how to", "where is",
               "when will", "what is", "wondering" }
      [] issue_type = "Complaint" ->
             { "complaint", "dissatisfied", "unhappy", "disappointed", "poor service",
               "not acceptable", "bad experience", "terrible", "awful" }

\* The number of the keywords that the words of the text contain.
hits(indicators, text) ==
    Cardinality({ k \in indicators : \E w \in text : KeywordIn(k, w) })

\* _determine_urgency on the body alone.
determine_urgency_body(subject, body) ==
    IF hits(urgency_indicators("High"), body) > 0 THEN "High"
    ELSE IF hits(urgency_indicators("Medium"), body) > 0 THEN "Medium"
    ELSE "Low"

\* _determine_urgency by the number of hits of each level, High before
\* Medium before Low among equals.
determine_urgency_by_count(subject, body) ==
    LET combined_text == subject \cup body
        high == hits(urgency_indicators("High"), combined_text)
        medium == hits(urgency_indicators("Medium"), combined_text)
        low == hits(urgency_indicators("Low"), combined_text)
    IN  IF high > 0 /\ high >= medium /\ high >= low THEN "High"
        ELSE IF medium > 0 /\ medium >= low THEN "Medium"
        ELSE "Low"

\* _determine_urgency: High for any High keyword in subject and body,
\* Medium for any Medium keyword, Low for the rest.
determine_urgency(subject, body) ==
    LET combined_text == subject \cup body IN
    IF hits(urgency_indicators("High"), combined_text) > 0 THEN "High"
    ELSE IF hits(urgency_indicators("Medium"), combined_text) > 0 THEN "Medium"
    ELSE "Low"

\* _determine_tone: the tone with the most hits in the body, the first of
\* threatening, escalation, polite, neutral among equals, neutral for none.
determine_tone(body) ==
    LET score(tone) == hits(tone_indicators(tone), body)
        max_tones == { Tones[i] : i \in { j \in 1..Len(Tones) :
                          \A k \in 1..Len(Tones) : score(Tones[k]) <= score(Tones[j]) } }
    IN  IF \A i \in 1..Len(Tones) : score(Tones[i]) = 0 THEN "neutral"
        ELSE IF "threatening" \in max_tones THEN "threatening"
        ELSE IF "escalation" \in max_tones THEN "escalation"
        ELSE IF "polite" \in max_tones THEN "polite"
        ELSE "neutral"

\* _determine_issue_type: the first issue type, in the order of the dict,
\* with the most hits in subject and body; General Inquiry for none.
determine_issue_type(subject, body) ==
    LET combined_text == subject \cup body
        score(i) == hits(issue_types(IssueTypes[i]), combined_text)
    IN  IF \A i \in 1..Len(IssueTypes) : score(i) = 0 THEN "General Inquiry"
        ELSE IssueTypes[CHOOSE i \in 1..Len(IssueTypes) :
                           /\ \A j \in 1..Len(IssueTypes) : score(j) <= score(i)
                           /\ \A j \in 1..(i - 1) : score(j) < score(i)]

\* The correspondence as an input of classify: a string that does not parse
\* as JSON and holds From:, Subject: and the @ of the sender's address.
EmailAsInput(email) ==
    ClassifierInput("str", FALSE, "fails", { "From:", "Subject:", "@" }, {},
                    EmptyFields, "none")

\* parse_email, with the format _determine_format gives the correspondence.
parse_email(email) ==
    [op |-> "parse_email", input |-> email,
     format |-> determine_format(EmailAsInput(email)),
     urgency |-> determine_urgency(email.subject, email.body),
     tone |-> determine_tone(email.body),
     issue_type |-> determine_issue_type(email.subject, email.body)]

InitEmail ==
    /\ registered_actions = << >>
    /\ action_chains = << >>
    /\ alert_rules = BuiltinRules
    /\ alerts_history = << >>
    /\ clock = 0
    /\ lastCall = NoCall
    /\ threads = << >>
    /\ cond_in = NoInput
    /\ memory = << >>
    /\ \E email \in Emails : pipeline = [op |-> "parse_request", input |-> email]

ParseEmail ==
    /\ pipeline.op = "parse_request"
    /\ pipeline' = parse_email(pipeline.input)
    /\ UNCHANGED <<registered_actions, action_chains, alert_rules, alerts_history,
                   clock, lastCall, threads, cond_in, memory>>

NextEmail == ParseEmail

SpecEmail == InitEmail /\ [][NextEmail]_vars

\* The correspondence of scenario B has been parsed: subject 'URGENT refund
\* needed', body 'This is unacceptable, I want a refund.'
ScenarioBParsed ==
    /\ pipeline.op = "parse_email"
    /\ pipeline.input = [subject |-> { "urgent", "refund" },
                         body |-> { "unacceptable", "refund" }]

\* C23 as stated: scenario B gives format Email, urgency High, tone
\* threatening and issue type Complaint.
C23_ScenarioBComplaint ==
    ScenarioBParsed
    => /\ pipeline.format = "Email"
       /\ pipeline.urgency = "High"
       /\ pipeline.tone = "threatening"
       /\ pipeline.issue_type = "Complaint"

\* C23, amended: scenario B gives format Email, urgency High, tone
\* threatening and issue type Billing Inquiry.
C23_ScenarioBBilling ==
    ScenarioBParsed
    => /\ pipeline.format = "Email"
       /\ pipeline.urgency = "High"
       /\ pipeline.tone = "threatening"
       /\ pipeline.issue_type = "Billing Inquiry"

C23_Witness == ScenarioBParsed

\* The number of keywords of the level in subject and body of the parsed
\* correspondence.
UrgencyHits(level) ==
    hits(urgency_indicators(level), pipeline.input.subject \cup pipeline.input.body)

\* C24 as stated: the urgency is the level whose keywords have the most
\* hits in subject and body.
C24_UrgencyByHitCount ==
    pipeline.op = "parse_email"
    => \A level \in { "High", "Medium", "Low" } :
          (\A other \in { "High", "Medium", "Low" } \ { level } :
              UrgencyHits(other) < UrgencyHits(level))
          => pipeline.urgency = level

\* C24, amended: the urgency is High when subject and body hold a High
\* keyword, else Medium when they hold a Medium keyword, else Low, whatever
\* the hit counts are.
C24_UrgencyByPresence ==
    pipeline.op = "parse_email"
    => /\ UrgencyHits("High") > 0 => pipeline.urgency = "High"
       /\ (UrgencyHits("High") = 0 /\ UrgencyHits("Medium") > 0)
          => pipeline.urgency = "Medium"
       /\ (UrgencyHits("High") = 0 /\ UrgencyHits("Medium") = 0)
          => pipeline.urgency = "Low"

\* A correspondence with two Medium keywords and one High keyword has been
\* parsed.
C24_Witness ==
    /\ pipeline.op = "parse_email"
    /\ UrgencyHits("Medium") = 2
    /\ UrgencyHits("High") = 1
    /\ pipeline.urgency = "High"


\* C22: the extractor raises for no record, whatever the types of its
\* values and of the elements of its item list are; it returns a record and
\* the anomalies.
C22_ExtractorNeverRaises ==
    pipeline.op = "map_to_flowbit_schema" => pipeline.outcome = "returned"


(***************************************************************************)
(* memory/memory_store.py: the store_* methods, each one INSERT of one row *)
(***************************************************************************)
\* One row of a table of the store.  key is the row's format_type (tables
\* metadata and results), agent (extractions), action_type (actions) or
\* alert_type (alerts); timestamp is the row's timestamp or triggered_at.
Row(table, conversation_id, key, timestamp, data) ==
    [table |-> table, conversation_id |-> conversation_id, key |-> key,
     timestamp |-> timestamp, data |-> data]

\* INSERT OR REPLACE on a key made of table and conversation id.
insert_per_conversation(mem, row) ==
    LET same(r) == r.table = row.table /\ r.conversation_id = row.conversation_id
    IN  Append(SelectSeq(mem, LAMBDA r : ~same(r)), row)

\* cursor.execute("INSERT INTO ..."), conn.commit(): the primary key is a
\* fresh uuid4, so the row is added and no other row is touched.
insert(mem, row) == Append(mem, row)

\* store_metadata: format_type is metadata.get("format_type", ""), the
\* timestamp is the caller's when the metadata carries one.
store_metadata(mem, metadata, now) ==
    insert(mem, Row("metadata", metadata.conversation_id,
                    IF "format_type" \in DOMAIN metadata THEN metadata.format_type ELSE "",
                    IF "timestamp" \in DOMAIN metadata THEN metadata.timestamp ELSE now,
                    metadata))

store_extraction(mem, conversation_id, agent, data, now) ==
    insert(mem, Row("extractions", conversation_id, agent, now, data))

\* store_result: format_type is result.get("format_type", ""), which the
\* caller passes.
store_result(mem, conversation_id, result, format_type, now) ==
    insert(mem, Row("results", conversation_id, format_type, now, result))

(***************************************************************************)
(* agents/classifier_agent.py: route_to_agent with a memory store          *)
(***************************************************************************)
ConversationIds == { "conv-1", "conv-2" }

\* The extractor route_to_agent's if/elif chain hands the input to.
extractor_of(format_type) ==
    CASE format_type = "JSON"  -> "json_agent"
      [] format_type = "Email" -> "email_agent"
      [] format_type = "PDF"   -> "pdf_agent"
      [] OTHER                 -> "none"

\* The envelope route_to_agent builds: the extractor's record with format and
\* conversation id, or the error envelope.
route_result(format_type, conversation_id) ==
    IF extractor_of(format_type) = "none"
    THEN [error |-> "Unsupported format", format |-> format_type]
    ELSE [format |-> format_type,
          processed_data |-> [extracted_by |-> extractor_of(format_type)],
          conversation_id |-> conversation_id]

\* A result record is written for every envelope.
stores_result_always(result) == TRUE

\* "error" not in result
stores_result(result) == "error" \notin DOMAIN result

\* What can go wrong inside one route_to_agent call: one of the three writes
\* raises (sqlite3.Error), or the JSON extractor raises on its record.
Faults == { "none", "metadata", "extraction", "result", "extractor" }

\* route_to_agent(data, conversation_id) on the store mem at time now:
\* whether it returned, its envelope, the extractors invoked, the store
\* afterwards.
route(mem, data, conversation_id, fault, now) ==
    LET classification == classify(data)
        format_type == classification.format
        agent == extractor_of(format_type)
        metadata == [conversation_id |-> conversation_id, source |-> "api",
                     format_type |-> format_type, intent |-> classification.intent,
                     timestamp |-> now]
        result == route_result(format_type, conversation_id)
        m1 == store_metadata(mem, metadata, now)
        m2 == IF agent = "none" THEN m1
              ELSE store_extraction(m1, conversation_id, agent, result.processed_data, now + 1)
        m3 == IF stores_result(result)
              THEN store_result(m2, conversation_id, result, "", now + 2)
              ELSE m2
        raised(m, agents) ==
            [outcome |-> "raised", result |-> [error |-> "raised"], format |-> format_type,
             agents |-> agents, memory |-> m]
    IN  IF classification.outcome = "raised" THEN raised(mem, << >>)
        ELSE IF fault = "metadata" THEN raised(mem, << >>)
        ELSE IF agent = "json_agent" /\ fault = "extractor" THEN raised(m1, << agent >>)
        ELSE IF agent # "none" /\ fault = "extraction" THEN raised(m1, << agent >>)
        ELSE IF stores_result(result) /\ fault = "result" THEN raised(m2, << agent >>)
        ELSE [outcome |-> "returned", result |-> result, format |-> format_type,
              agents |-> IF agent = "none" THEN << >> ELSE << agent >>,
              memory |-> m3]

\* The call whose routing is asked for.
RouteRequest(data, conversation_id, fault) ==
    [op |-> "route_request", input |-> data, conversation_id |-> conversation_id,
     fault |-> fault]

InitRoute ==
    /\ registered_actions = DefaultActions
    /\ action_chains = << >>
    /\ alert_rules = BuiltinRules
    /\ alerts_history = << >>
    /\ clock = 0
    /\ lastCall = NoCall
    /\ threads = << >>
    /\ cond_in = NoInput
    /\ memory = << >>
    /\ \E data \in ClassifyInputs, conversation_id \in ConversationIds, fault \in Faults :
          pipeline = RouteRequest(data, conversation_id, fault)

RouteToAgent ==
    /\ pipeline.op = "route_request"
    /\ LET r == route(memory, pipeline.input, pipeline.conversation_id, pipeline.fault, clock)
       IN  /\ pipeline' = [op |-> "route_to_agent", input |-> pipeline.input,
                           conversation_id |-> pipeline.conversation_id,
                           fault |-> pipeline.fault, outcome |-> r.outcome,
                           result |-> r.result, format |-> r.format, agents |-> r.agents]
           /\ memory' = r.memory
           /\ clock' = clock + Len(r.memory) - Len(memory)
    /\ UNCHANGED <<registered_actions, action_chains, alert_rules, alerts_history,
                   lastCall, threads, cond_in>>

NextRoute == RouteToAgent

SpecRoute == InitRoute /\ [][NextRoute]_vars

\* route_to_agent has returned an envelope.
Routed == pipeline.op = "route_to_agent" /\ pipeline.outcome = "returned"

\* The rows of the table the store holds.
RowsOf(table) == { i \in 1..Len(memory) : memory[i].table = table }

\* C25: routing an input of Unknown format returns exactly the error envelope
\* {error: 'Unsupported format', format}, invokes no extractor and writes no
\* extraction row and no result row; for a recognised format exactly the
\* matching extractor is invoked.
C25_UnknownRoutesToNoExtractor ==
    Routed
    => /\ pipeline.format = "Unknown"
          => /\ pipeline.result = [error |-> "Unsupported format", format |-> "Unknown"]
             /\ pipeline.agents = << >>
             /\ RowsOf("extractions") = {}
             /\ RowsOf("results") = {}
       /\ pipeline.format = "JSON" => pipeline.agents = << "json_agent" >>
       /\ pipeline.format = "Email" => pipeline.agents = << "email_agent" >>
       /\ pipeline.format = "PDF" => pipeline.agents = << "pdf_agent" >>
       /\ pipeline.format \in { "Unknown", "JSON", "Email", "PDF" }

\* An input of Unknown format has been routed and its metadata row written.
C25_Witness ==
    /\ Routed
    /\ pipeline.format = "Unknown"
    /\ RowsOf("metadata") # {}

\* A write of this call failed: the faulty write is one the call makes.
WriteFailed ==
    /\ pipeline.op = "route_to_agent"
    /\ classify(pipeline.input).outcome = "returned"
    /\ \/ pipeline.fault = "metadata"
       \/ pipeline.fault = "extraction" /\ pipeline.format # "Unknown"
       \/ pipeline.fault = "result" /\ pipeline.format # "Unknown"

\* C26: when a write to the store fails during routing, routing still
\* returns the envelope it returns when every write succeeds; the failure
\* does not reach the caller.
C26_WriteFailureNotPropagated ==
    WriteFailed
    => /\ pipeline.outcome = "returned"
       /\ pipeline.result = route_result(pipeline.format, pipeline.conversation_id)


(***************************************************************************)
(* api/endpoints.py: what process_any writes to the store, and the merge   *)
(***************************************************************************)
MaxInputs == 2

\* find_related_inputs: SELECT DISTINCT format_type FROM metadata WHERE
\* conversation_id = ?
find_related_inputs(mem, conversation_id) ==
    { mem[i].key : i \in { j \in 1..Len(mem) : /\ mem[j].table = "metadata"
                                               /\ mem[j].conversation_id = conversation_id } }

\* len(formats) > 1
merges(formats) == Cardinality(formats) > 1

\* merge_results: with more than one format_type a result row of format
\* "merged" is written and the merged data returned, else None.
merge_results(mem, conversation_id, now) ==
    LET formats == find_related_inputs(mem, conversation_id)
    IN  IF merges(formats)
        THEN [merged_data |-> [formats |-> formats, merged |-> TRUE],
              memory |-> store_result(mem, conversation_id,
                                      [format_type |-> "merged", intent |-> "composite"],
                                      "merged", now)]
        ELSE [merged_data |-> Absent, memory |-> mem]

\* The metadata process_any writes for the input before classifying it: a
\* file upload and a text that is no JSON carry no format_type, a content
\* that json.loads accepts carries format_type "json".
source_metadata(data, conversation_id) ==
    IF data.kind = "bytes"
    THEN [conversation_id |-> conversation_id, source |-> "file_upload"]
    ELSE IF data.kind = "str"
    THEN [conversation_id |-> conversation_id, source |-> "text_input"]
    ELSE [conversation_id |-> conversation_id, source |-> "json_input",
          format_type |-> "json"]

\* What /process is given: a file (PDF or not), a JSON object, a text with an
\* address, a plain text.
ProcessInputs ==
    { ClassifierInput("bytes", TRUE, "fails", {}, {}, EmptyFields, "none"),
      ClassifierInput("bytes", FALSE, "fails", {}, {}, EmptyFields, "none"),
      ClassifierInput("dict", FALSE, "dict", {}, {}, EmptyFields, "none"),
      ClassifierInput("str", FALSE, "fails", { "@" }, {}, EmptyFields, "none"),
      ClassifierInput("str", FALSE, "fails", {}, {}, EmptyFields, "none") }

InitMerge ==
    /\ registered_actions = DefaultActions
    /\ action_chains = << >>
    /\ alert_rules = BuiltinRules
    /\ alerts_history = << >>
    /\ clock = 0
    /\ lastCall = NoCall
    /\ threads = << >>
    /\ cond_in = NoInput
    /\ memory = << >>
    /\ pipeline = [op |-> "process_request", inputs |-> << >>, outcome |-> "",
                   conversation_id |-> "", merged_data |-> Absent]

\* The metadata process_any writes after classify_format_intent.
classifier_metadata(classification, conversation_id) ==
    [conversation_id |-> conversation_id, source |-> "classifier",
     format_type |-> classification.shown_format,
     intent |-> classification.shown_intent]

\* The response of /process, as far as the store decides it.
Response(inputs, outcome, conversation_id, merged_data) ==
    [op |-> "process", inputs |-> inputs, outcome |-> outcome,
     conversation_id |-> conversation_id, merged_data |-> merged_data]

\* One POST /process with the input and the conversation id: the source
\* metadata, classify_format_intent and its metadata, route_to_agent and its
\* rows, then find_related_inputs and the merge.  The inputs /process can be
\* given are classified without an exception; an exception of the JSON
\* extractor inside route_to_agent is answered with HTTP 500.
ProcessInput(data, conversation_id, fault) ==
    /\ pipeline.op \in { "process_request", "process" }
    /\ Len(pipeline.inputs) < MaxInputs
    /\ \E classification \in { classify(data) } :
       \E m1 \in { store_metadata(memory, source_metadata(data, conversation_id), clock) } :
       \E m2 \in { store_metadata(m1, classifier_metadata(classification, conversation_id),
                                  clock + 1) } :
       \E routed \in { route(m2, data, conversation_id, fault, clock + 2) } :
       \E merged \in { merge_results(routed.memory, conversation_id, clock + 5) } :
       \E inputs \in { Append(pipeline.inputs, [conversation_id |-> conversation_id,
                                                format |-> classification.format]) } :
          IF routed.outcome = "raised"
          THEN /\ pipeline' = Response(inputs, "http_500", conversation_id, Absent)
               /\ memory' = routed.memory
          ELSE /\ pipeline' = Response(inputs, "returned", conversation_id,
                                       merged.merged_data)
               /\ memory' = merged.memory
    /\ clock' = clock + 6
    /\ UNCHANGED <<registered_actions, action_chains, alert_rules, alerts_history,
                   lastCall, threads, cond_in>>

NextMerge ==
    \E data \in ProcessInputs, conversation_id \in ConversationIds,
       fault \in { "none", "extractor" } :
        ProcessInput(data, conversation_id, fault)

SpecMerge == InitMerge /\ [][NextMerge]_vars

\* The formats of the inputs the conversation of the last request has been
\* given, the last one included.
InputFormats ==
    { pipeline.inputs[i].format :
        i \in { j \in 1..Len(pipeline.inputs) :
                  pipeline.inputs[j].conversation_id = pipeline.conversation_id } }

\* The store holds a merged result row of the conversation of the last request.
MergedStored ==
    \E i \in RowsOf("results") :
        memory[i].conversation_id = pipeline.conversation_id /\ memory[i].key = "merged"

\* C29: the response carries merged_data, and a merged result row is
\* stored, only when the conversation has been given inputs of at least two
\* different formats; one input on a fresh conversation id gives none.
C29_MergedOnlyForTwoFormats ==
    (pipeline.op = "process" /\ pipeline.outcome = "returned")
    => /\ pipeline.merged_data # Absent => Cardinality(InputFormats) >= 2
       /\ MergedStored => Cardinality(InputFormats) >= 2


(***************************************************************************)
(* memory/memory_store.py under concurrent callers.  A store_* call reads  *)
(* the clock, executes its INSERT on a connection of its own, which takes  *)
(* the database's write lock or fails when another connection holds it,    *)
(* and commits; another caller can run between any two of these.           *)
(***************************************************************************)
StoreTables == { "metadata", "extractions", "results", "actions", "alerts" }

\* The order in which get_conversation_history reads the tables.
HistoryTables ==
    << "metadata", "extractions", "results", "actions", "decision_traces", "alerts" >>

IdleWriter ==
    [pc |-> "idle", table |-> "", conversation_id |-> "", timestamp |-> 0,
     data |-> [written_by |-> 0]]

\* A caller enters store_metadata, store_extraction, store_result,
\* store_action or store_alert with its own payload: self.get_timestamp()
\* (or the timestamp in the metadata) is taken before the INSERT.  Two calls
\* can read the same clock value.
StoreCall(t, table, conversation_id) ==
    /\ threads[t].pc = "idle"
    /\ threads' = [threads EXCEPT ![t] =
                      [pc |-> "stamped", table |-> table,
                       conversation_id |-> conversation_id, timestamp |-> clock,
                       data |-> [written_by |-> t]]]
    /\ \E d \in { 0, 1 } : clock' = clock + d
    /\ UNCHANGED <<registered_actions, action_chains, alert_rules, alerts_history,
                   lastCall, cond_in, pipeline, memory>>

\* Another connection has executed its INSERT and not yet committed.
write_locked(t) == \E u \in Threads \ { t } : threads[u].pc = "inserted"

\* cursor.execute(INSERT) with the write lock free.
InsertStep(t) ==
    /\ threads[t].pc = "stamped"
    /\ ~write_locked(t)
    /\ threads' = [threads EXCEPT ![t] = [@ EXCEPT !.pc = "inserted"]]
    /\ UNCHANGED <<registered_actions, action_chains, alert_rules, alerts_history,
                   clock, lastCall, cond_in, pipeline, memory>>

\* cursor.execute(INSERT) while the lock stays held: sqlite3.OperationalError
\* (database is locked) leaves the store_* call, nothing is written.
InsertLocked(t) ==
    /\ threads[t].pc = "stamped"
    /\ write_locked(t)
    /\ threads' = [threads EXCEPT ![t] = [@ EXCEPT !.pc = "raised"]]
    /\ UNCHANGED <<registered_actions, action_chains, alert_rules, alerts_history,
                   clock, lastCall, cond_in, pipeline, memory>>

\* conn.commit(); conn.close()
CommitStep(t) ==
    LET th == threads[t] IN
    /\ th.pc = "inserted"
    /\ memory' = insert(memory, Row(th.table, th.conversation_id, "", th.timestamp, th.data))
    /\ threads' = [threads EXCEPT ![t] = [@ EXCEPT !.pc = "done"]]
    /\ UNCHANGED <<registered_actions, action_chains, alert_rules, alerts_history,
                   clock, lastCall, cond_in, pipeline>>

\* list.sort(key=timestamp): stable, ascending.
RECURSIVE sort_by_timestamp(_)
sort_by_timestamp(history) ==
    IF history = << >> THEN << >>
    ELSE LET first == CHOOSE i \in 1..Len(history) :
                          /\ \A j \in 1..Len(history) :
                                history[i].timestamp <= history[j].timestamp
                          /\ \A j \in 1..(i - 1) :
                                history[j].timestamp # history[i].timestamp
             rest == [k \in 1..(Len(history) - 1) |->
                         IF k < first THEN history[k] ELSE history[k + 1]]
         IN  << history[first] >> \o sort_by_timestamp(rest)

\* The rows of the conversation, table after table.
RECURSIVE select_tables(_, _, _)
select_tables(mem, conversation_id, k) ==
    IF k > Len(HistoryTables) THEN << >>
    ELSE SelectSeq(mem, LAMBDA r : /\ r.table = HistoryTables[k]
                                   /\ r.conversation_id = conversation_id)
         \o select_tables(mem, conversation_id, k + 1)

\* get_conversation_history
get_conversation_history(mem, conversation_id) ==
    sort_by_timestamp(select_tables(mem, conversation_id, 1))

InitStore ==
    /\ registered_actions = DefaultActions
    /\ action_chains = << >>
    /\ alert_rules = BuiltinRules
    /\ alerts_history = << >>
    /\ clock = 0
    /\ lastCall = NoCall
    /\ threads = [t \in Threads |-> IdleWriter]
    /\ cond_in = NoInput
    /\ memory = << >>
    /\ pipeline = NoRequest

NextStore ==
    \E t \in Threads :
        \/ \E table \in StoreTables, conversation_id \in ConversationIds :
              StoreCall(t, table, conversation_id)
        \/ InsertStep(t)
        \/ InsertLocked(t)
        \/ CommitStep(t)

SpecStore == InitStore /\ [][NextStore]_vars

\* The callers whose store_* call on the conversation has returned.
Appended(conversation_id) ==
    { t \in Threads : /\ threads[t].pc = "done"
                      /\ threads[t].conversation_id = conversation_id }

\* The places of the history that hold the caller's record.
PlacesOf(history, t) ==
    { i \in 1..Len(history) : /\ history[i].table = threads[t].table
                              /\ history[i].data = threads[t].data
                              /\ history[i].timestamp = threads[t].timestamp }

RouterInputs ==
    [format : { "PDF", "Email", "JSON", "Other" },
     intent : { "Regulation", "Complaint", "Fraud Risk", "Invoice", "Other" },
     urgency : { "", "High", "Medium" },
     tone : { "", "threatening", "polite" },
     anomalies : { 0 - 1, 0, 1 },
     high_value : BOOLEAN,
     regulatory_content : BOOLEAN]

\* The action types _simulate_api_response has a response for.
ActionTypes ==
    { "create_ticket", "escalate_issue", "flag_compliance_risk", "flag_risk_alert",
      "create_payment_review", "flag_data_issue", "archive_data" }

Action(type, target, priority) == [type |-> type, target |-> target, priority |-> priority]

\* _determine_action
determine_action(data) ==
    IF data.format = "PDF" /\ data.intent = "Regulation"
    THEN Action("flag_compliance_risk", "compliance", "high")
    ELSE IF data.format = "PDF" /\ data.regulatory_content
    THEN Action("flag_compliance_risk", "compliance", "high")
    ELSE IF data.format = "PDF" /\ data.high_value
    THEN Action("create_payment_review", "ticketing", "medium")
    ELSE IF data.format = "Email" /\ data.intent = "Complaint"
    THEN Action("escalate_issue", "crm", "high")
    ELSE IF data.format = "Email" /\ data.urgency = "High"
    THEN Action("escalate_issue", "crm", "high")
    ELSE IF data.format = "Email" /\ data.tone \in { "escalation", "threatening" }
    THEN Action("escalate_issue", "crm", "high")
    ELSE IF data.format = "Email"
    THEN Action("create_ticket", "ticketing",
                IF data.urgency = "Medium" THEN "medium" ELSE "low")
    ELSE IF data.format = "JSON" /\ data.intent = "Fraud Risk"
    THEN Action("flag_risk_alert", "risk_alert", "critical")
    ELSE IF data.format = "JSON" /\ data.anomalies > 0
    THEN Action("flag_data_issue", "ticketing", "medium")
    ELSE IF data.format = "JSON" /\ data.high_value
    THEN Action("create_payment_review", "crm", "medium")
    ELSE Action("archive_data", "archive", "low")

\* Evaluating the response template of the action type raises: the
\* flag_compliance_risk template computes datetime.timedelta(days=3) where
\* datetime is the class imported by "from datetime import datetime".
template_raises(action_type) == action_type = "flag_compliance_risk"

\* _simulate_api_response: the dict of all seven templates is built before
\* the one for action_type is looked up.
simulate_api_response(action_type, target) ==
    IF \E template \in ActionTypes : template_raises(template)
    THEN [outcome |-> "raised", error_type |-> "AttributeError", success |-> FALSE,
          network |-> FALSE]
    ELSE [outcome |-> "returned", error_type |-> "", success |-> TRUE, network |-> FALSE]

\* What the action sink does with a POST: answers 200, answers 500, or the
\* request fails (connection error, timeout).
SinkBehaviours == { "status_200", "status_500", "exception" }

\* _execute_action: the simulated response, or requests.post inside try.
execute_action(action, simulate, sink) ==
    IF simulate THEN simulate_api_response(action.type, action.target)
    ELSE [outcome |-> "returned",
          error_type |-> IF sink = "exception" THEN "ConnectionError" ELSE "",
          success |-> sink = "status_200", network |-> TRUE]

\* route_action: the action, its execution, the action row in the store.
route_action(mem, conversation_id, data, simulate, sink, now) ==
    LET action == determine_action(data)
        result == execute_action(action, simulate, sink)
    IN  [op |-> "route_action", input |-> data, simulate |-> simulate, sink |-> sink,
         outcome |-> result.outcome, action_type |-> action.type,
         action_target |-> action.target, success |-> result.success,
         error_type |-> result.error_type, network |-> result.network,
         memory |-> IF result.outcome = "raised" THEN mem
                    ELSE insert(mem, Row("actions", conversation_id, action.type, now,
                                         [status |-> "completed",
                                          success |-> result.success]))]

InitAction ==
    /\ registered_actions = DefaultActions
    /\ action_chains = << >>
    /\ alert_rules = BuiltinRules
    /\ alerts_history = << >>
    /\ clock = 0
    /\ lastCall = NoCall
    /\ threads = << >>
    /\ cond_in = NoInput
    /\ memory = << >>
    /\ \E data \in RouterInputs, simulate \in BOOLEAN, sink \in SinkBehaviours :
          pipeline = [op |-> "route_action_request", input |-> data,
                      simulate |-> simulate, sink |-> sink]

RouteAction ==
    /\ pipeline.op = "route_action_request"
    /\ LET r == route_action(memory, "conv-1", pipeline.input, pipeline.simulate,
                             pipeline.sink, clock)
       IN  /\ pipeline' = [f \in (DOMAIN r) \ { "memory" } |-> r[f]]
           /\ memory' = r.memory
           /\ clock' = clock + Len(r.memory) - Len(memory)
    /\ UNCHANGED <<registered_actions, action_chains, alert_rules, alerts_history,
                   lastCall, threads, cond_in>>

NextAction == RouteAction

SpecAction == InitAction /\ [][NextAction]_vars

\* C28: in simulated mode route_action returns, for each of the seven action
\* types, an outcome with a success flag, without raising and without
\* network I/O; a failing sink gives success = false and no exception.
C28_SimulatedActionReturns ==
    pipeline.op = "route_action"
    => /\ pipeline.action_type \in ActionTypes
       /\ pipeline.simulate
          => /\ pipeline.outcome = "returned"
             /\ pipeline.success \in BOOLEAN
             /\ ~pipeline.network
       /\ (~pipeline.simulate /\ pipeline.sink # "status_200")
          => /\ pipeline.outcome = "returned"
             /\ ~pipeline.success


\* C30: every byte input classified PDF gets the intent Regulation, whatever
\* words it contains.
C30_PdfIsRegulation ==
    (Classified /\ pipeline.input.kind = "bytes" /\ pipeline.format = "PDF")
    => /\ pipeline.outcome = "returned"
       /\ pipeline.intent = "Regulation"

\* A PDF whose bytes hold a fraud keyword has been classified.
C30_Witness ==
    /\ Classified
    /\ pipeline.format = "PDF"
    /\ "fraud" \in pipeline.input.words
    /\ pipeline.intent = "Regulation"

=============================================================================
